---- MODULE Spec2Model ----
(***************************************************************************)
(* State-machine model of the EdDSA multi-signature document backend:      *)
(* the MultiSignatureService (session state machine), the EdDSAService     *)
(* primitives it calls, and the Express routes that own the in-memory      *)
(* stores (global.documentStore, global.multiSigStore).                    *)
(*                                                                         *)
(* Conventions.                                                            *)
(*  - A JavaScript value that may be undefined/null is a sequence of       *)
(*    length 0 (absent) or 1 (present): Undefined and Some(v).             *)
(*  - Time is counted in days; `now` is the value of new Date().           *)
(*  - crypto.randomUUID() is a fresh-value source: the ids it issues, for  *)
(*    documents and sessions alike, are 1, 2, ... (0 stands for null).     *)
(*  - tweetnacl is modelled symbolically: a secret key is (length, seed,   *)
(*    embedded public key); a detached signature records the seed and the  *)
(*    embedded public key it was made with and the message.                *)
(***************************************************************************)
EXTENDS Integers, Sequences, FiniteSets, TLC

VARIABLES
    documentStore,   \* global.documentStore: document id -> document
    multiSigStore,   \* global.multiSigStore: session id -> session
    uuid,            \* how many ids crypto.randomUUID() has issued
    cancelled,       \* history: ids of the sessions DELETE /session removed
    now,             \* the clock, in days
    verificationStore, \* global.verificationStore: token -> stored payload
    keyStore,        \* global.keyStore: key id -> key pair record
    requests,        \* add-signature requests received, with their outcome
    signatureStore,  \* global.signatureStore: document id -> single signature
    resp             \* the response to the last request

vars ==
    <<documentStore, multiSigStore, uuid, cancelled, now, verificationStore,
      keyStore, requests, signatureStore, resp>>

----------------------------------------------------------------------------
(* Bounds of the model *)

MaxUuids == 2
MaxTime == 14
MaxListLen == 6
MaxThreshold == 6
MaxSigs == 3
MaxQRSigners == 5
MaxClock == 31        \* days the clock of the verification store runs
MaxRequests == 2      \* add-signature requests in flight or answered

(* Program constants *)

MIN_SIGNERS == 2
MAX_SIGNERS == 5
DEFAULT_THRESHOLD == 2
SESSION_TTL_DAYS == 7
SIGNATURE_LENGTH == 64
PUBLIC_KEY_LENGTH == 32
SECRET_KEY_LENGTH == 64

----------------------------------------------------------------------------
(* JavaScript optional values *)

Undefined == <<>>
Some(v) == <<v>>
IsDefined(o) == Len(o) > 0
Min(a, b) == IF a < b THEN a ELSE b

Roles == {"dosen", "kaprodi", "dekan", "rektor"}

----------------------------------------------------------------------------
(* EdDSAService *)

(* A public key as a base64 string: its byte length and which key it is. *)
PublicKey(id) == [len |-> PUBLIC_KEY_LENGTH, id |-> id]

(* hashDocument: SHA-256 taken as injective on its input. *)
hashDocument(content) == [sha256 |-> content]

(* The argument of hashDocument in signDocument, initializeMultiSigSession  *)
(* and the verifiers: JSON.stringify(document.content || document).  An     *)
(* empty content is falsy, so the whole document object is serialized.      *)
HashInput(document) ==
    IF document.content # ""
    THEN [content |-> document.content, document |-> Undefined]
    ELSE [content |-> "", document |-> Some(document)]

(* nacl.sign.detached throws 'bad secret key size' unless the key has 64    *)
(* bytes.                                                                  *)
signThrows(privateKey) == privateKey.len # SECRET_KEY_LENGTH

sign(message, privateKey) ==
    [len |-> SIGNATURE_LENGTH, seed |-> privateKey.seed,
     pub |-> privateKey.pub, msg |-> message]

(* nacl.sign.detached.verify throws on a bad signature or public key size.  *)
verifyThrows(signature, publicKey) ==
    \/ signature.len # SIGNATURE_LENGTH
    \/ publicKey.len # PUBLIC_KEY_LENGTH

verifyIgnoresMessage(signature, message, publicKey) ==
    /\ signature.pub = publicKey.id
    /\ signature.seed = publicKey.id

(* Ed25519 verification: the signature was made over this message by the    *)
(* seed that belongs to this public key, with that public key embedded.     *)
verify(signature, message, publicKey) ==
    /\ signature.msg = message
    /\ signature.pub = publicKey.id
    /\ signature.seed = publicKey.id

(* nacl.sign.keyPair.fromSecretKey copies the last 32 bytes of the key.     *)
getPublicKeyFromPrivate(privateKey) == PublicKey(privateKey.pub)

(* signDocument(document, privateKey, signerInfo) at time t; a throwing     *)
(* sign is rethrown as 'Failed to sign document'.                           *)
signDocument(document, privateKey, signerInfo, t) ==
    LET documentHash == hashDocument(HashInput(document))
    IN IF signThrows(privateKey)
       THEN [threw |-> TRUE, signature |-> Undefined]
       ELSE [threw |-> FALSE,
             signature |->
                 Some([documentId |-> document.id,
                       documentHash |-> documentHash,
                       signature |-> sign(documentHash, privateKey),
                       signer |-> [name |-> signerInfo.name,
                                   publicKey |->
                                       getPublicKeyFromPrivate(privateKey)],
                       metadata |-> [algorithm |-> "Ed25519",
                                     signedAt |-> t]])]

(* generateSignerKeyPair(role, name, email): nacl.sign.keyPair() gives a   *)
(* fresh well-formed pair, and crypto.randomUUID() the signer id; both are  *)
(* told apart by id.                                                        *)
generateSignerKeyPair(role, name, id) ==
    [publicKey |-> PublicKey(id),
     privateKey |->
         [len |-> SECRET_KEY_LENGTH, seed |-> id, pub |-> id],
     signer |-> [role |-> role, name |-> name, id |-> id],
     metadata |-> [algorithm |-> "Ed25519", status |-> "active"]]

(* verifyDocumentSignature(signatureObject, document); verify throwing is  *)
(* rethrown as 'Failed to verify document signature', and so is the         *)
(* TypeError of reading signatureObject.metadata.signedAt from an object     *)
(* without metadata.                                                        *)
verifyDocumentSignatureOneReason(signatureObject, document) ==
    LET documentHash == hashDocument(HashInput(document))
    IN IF verifyThrows(signatureObject.signature,
                       signatureObject.signer.publicKey)
       THEN [threw |-> TRUE, valid |-> FALSE,
             reason |-> "Failed to verify document signature",
             documentHashMatch |-> TRUE, signatureValid |-> FALSE]
       ELSE IF "metadata" \notin DOMAIN signatureObject
       THEN [threw |-> TRUE, valid |-> FALSE,
             reason |-> "Failed to verify document signature",
             documentHashMatch |-> TRUE, signatureValid |-> FALSE]
       ELSE LET isSignatureValid ==
                    verify(signatureObject.signature, documentHash,
                           signatureObject.signer.publicKey)
            IN [threw |-> FALSE, valid |-> isSignatureValid,
                reason |-> IF isSignatureValid THEN "Signature is valid"
                           ELSE "Invalid signature",
                documentHashMatch |-> TRUE,
                signatureValid |-> isSignatureValid]

verifyDocumentSignature(signatureObject, document) ==
    LET documentHash == hashDocument(HashInput(document))
    IN IF documentHash # signatureObject.documentHash
       THEN [threw |-> FALSE, valid |-> FALSE,
             reason |-> "Document has been modified",
             documentHashMatch |-> FALSE, signatureValid |-> FALSE]
       ELSE IF verifyThrows(signatureObject.signature,
                            signatureObject.signer.publicKey)
       THEN [threw |-> TRUE, valid |-> FALSE,
             reason |-> "Failed to verify document signature",
             documentHashMatch |-> TRUE, signatureValid |-> FALSE]
       ELSE IF "metadata" \notin DOMAIN signatureObject
       THEN [threw |-> TRUE, valid |-> FALSE,
             reason |-> "Failed to verify document signature",
             documentHashMatch |-> TRUE, signatureValid |-> FALSE]
       ELSE LET isSignatureValid ==
                    verify(signatureObject.signature, documentHash,
                           signatureObject.signer.publicKey)
            IN [threw |-> FALSE, valid |-> isSignatureValid,
                reason |-> IF isSignatureValid THEN "Signature is valid"
                           ELSE "Invalid signature",
                documentHashMatch |-> TRUE,
                signatureValid |-> isSignatureValid]

----------------------------------------------------------------------------
(* MultiSignatureService *)

(* roles.filter((role, index) => roles.indexOf(role) !== index) *)
duplicateRoles(roles) ==
    SelectSeq([i \in 1..Len(roles) |->
                  [role |-> roles[i],
                   dup |-> \E j \in 1..(i - 1) : roles[j] = roles[i]]],
              LAMBDA e : e.dup)

(* validateMultiSigConfig(signers, threshold): signers is an optional list  *)
(* of roles, threshold an optional number.  A comparison with undefined is  *)
(* false; signers.length on undefined throws a TypeError.                   *)
validateMultiSigConfigNoUpperBound(signers, threshold) ==
    IF ~IsDefined(signers)
    THEN [threw |-> TRUE, valid |-> FALSE, errors |-> <<>>]
    ELSE LET list == signers[1]
             e1 == IF Len(list) = 0
                   THEN <<"At least one signer is required">> ELSE <<>>
             e2 == IF Len(list) > MAX_SIGNERS
                   THEN <<"Maximum signers allowed">> ELSE <<>>
             e3 == IF IsDefined(threshold) /\ threshold[1] < MIN_SIGNERS
                   THEN <<"Minimum threshold">> ELSE <<>>
             e5 == IF Len(duplicateRoles(list)) > 0
                   THEN <<"Duplicate signer roles found">> ELSE <<>>
             errors == e1 \o e2 \o e3 \o e5
         IN [threw |-> FALSE, valid |-> errors = <<>>, errors |-> errors]

validateMultiSigConfig(signers, threshold) ==
    IF ~IsDefined(signers)
    THEN [threw |-> TRUE, valid |-> FALSE, errors |-> <<>>]
    ELSE LET list == signers[1]
             e1 == IF Len(list) = 0
                   THEN <<"At least one signer is required">> ELSE <<>>
             e2 == IF Len(list) > MAX_SIGNERS
                   THEN <<"Maximum signers allowed">> ELSE <<>>
             e3 == IF IsDefined(threshold) /\ threshold[1] < MIN_SIGNERS
                   THEN <<"Minimum threshold">> ELSE <<>>
             e4 == IF IsDefined(threshold) /\ threshold[1] > Len(list)
                   THEN <<"Threshold cannot exceed number of signers">>
                   ELSE <<>>
             e5 == IF Len(duplicateRoles(list)) > 0
                   THEN <<"Duplicate signer roles found">> ELSE <<>>
             errors == e1 \o e2 \o e3 \o e4 \o e5
         IN [threw |-> FALSE, valid |-> errors = <<>>, errors |-> errors]

(* threshold || Math.min(DEFAULT_THRESHOLD, requiredSigners.length) *)
sessionThreshold(requiredSigners, threshold) ==
    IF IsDefined(threshold) /\ threshold[1] # 0
    THEN threshold[1]
    ELSE Min(DEFAULT_THRESHOLD, Len(requiredSigners))

initializeMultiSigSession(sessionId, document, requiredSigners, threshold, t) ==
    [sessionId |-> sessionId,
     documentId |-> document.id,
     documentHash |-> hashDocument(HashInput(document)),
     requiredSigners |->
         [i \in 1..Len(requiredSigners) |->
             [role |-> requiredSigners[i], required |-> TRUE,
              status |-> "pending", signedAt |-> Undefined]],
     threshold |-> sessionThreshold(requiredSigners, threshold),
     signatures |-> <<>>,
     status |-> "pending",
     createdAt |-> t,
     expiresAt |-> t + SESSION_TTL_DAYS,
     completedAt |-> Undefined,
     lastUpdated |-> Undefined,
     metadata |-> [totalSigners |-> Len(requiredSigners),
                   signedCount |-> 0,
                   pendingCount |-> Len(requiredSigners)]]

ErrCompleted == "Multi-signature session is already completed"
ErrExpired == "Multi-signature session has expired"
ErrNotRequired == "Signer role is not required for this document"
ErrAlreadySigned == "Signer with this role has already signed this document"
ErrSign == "Failed to create signature: bad secret key size"
ErrInvalid == "Generated signature is invalid"

Threw(session, message) ==
    [ok |-> FALSE, error |-> message, session |-> session]

isRequiredSignerAnyRole(session, signerRole) == TRUE

isRequiredSigner(session, signerRole) ==
    \E i \in 1..Len(session.requiredSigners) :
        session.requiredSigners[i].role = signerRole

hasSignedNever(session, signerRole) == FALSE

hasSigned(session, signerRole) ==
    \E i \in 1..Len(session.signatures) :
        session.signatures[i].signer.role = signerRole

sessionExpiredNever(session, t) == FALSE

sessionExpiredLate(session, t) == t > session.expiresAt + SESSION_TTL_DAYS

sessionExpired(session, t) == t > session.expiresAt

thresholdMetStrict(session, signatures) ==
    Len(signatures) > session.threshold

thresholdMet(session, signatures) == Len(signatures) >= session.threshold

acceptSignatureNoStamp(session, signerRole, newSignature, t) ==
    LET signatures == Append(session.signatures, newSignature)
        \* requiredSigners.find(...) is the first entry with this role
        found(i) == /\ session.requiredSigners[i].role = signerRole
                    /\ \A j \in 1..(i - 1) :
                           session.requiredSigners[j].role # signerRole
        signers == [i \in 1..Len(session.requiredSigners) |->
                       IF found(i)
                       THEN [session.requiredSigners[i] EXCEPT
                                !.status = "signed", !.signedAt = Some(t)]
                       ELSE session.requiredSigners[i]]
        pending == {i \in 1..Len(signers) : signers[i].status = "pending"}
        met == thresholdMet(session, signatures)
    IN [session EXCEPT
           !.signatures = signatures,
           !.requiredSigners = signers,
           !.metadata.signedCount = Len(signatures),
           !.metadata.pendingCount = Cardinality(pending),
           !.status = IF met THEN "completed" ELSE @,
           !.lastUpdated = Some(t)]

acceptSignatureOverwrite(session, signerRole, newSignature, t) ==
    [session EXCEPT
        !.signatures = <<newSignature>>,
        !.status = IF thresholdMet(session, Append(session.signatures,
                                                    newSignature))
                   THEN "completed" ELSE @,
        !.completedAt = IF thresholdMet(session, Append(session.signatures,
                                                         newSignature))
                        THEN Some(t) ELSE @,
        !.lastUpdated = Some(t)]

acceptSignatureRenews(session, signerRole, newSignature, t) ==
    [session EXCEPT
        !.signatures = Append(session.signatures, newSignature),
        !.status = IF thresholdMet(session, Append(session.signatures,
                                                    newSignature))
                   THEN "completed" ELSE @,
        !.expiresAt = t + SESSION_TTL_DAYS,
        !.lastUpdated = Some(t)]

acceptSignatureUncounted(session, signerRole, newSignature, t) ==
    [session EXCEPT
        !.signatures = Append(session.signatures, newSignature),
        !.metadata.signedCount = Len(session.signatures) + 1,
        !.status = IF thresholdMet(session, Append(session.signatures,
                                                    newSignature))
                   THEN "completed" ELSE @,
        !.completedAt = IF thresholdMet(session, Append(session.signatures,
                                                         newSignature))
                        THEN Some(t) ELSE @,
        !.lastUpdated = Some(t)]

(* The session as addSignature leaves it after accepting newSignature. *)
acceptSignature(session, signerRole, newSignature, t) ==
    LET signatures == Append(session.signatures, newSignature)
        \* requiredSigners.find(...) is the first entry with this role
        found(i) == /\ session.requiredSigners[i].role = signerRole
                    /\ \A j \in 1..(i - 1) :
                           session.requiredSigners[j].role # signerRole
        signers == [i \in 1..Len(session.requiredSigners) |->
                       IF found(i)
                       THEN [session.requiredSigners[i] EXCEPT
                                !.status = "signed", !.signedAt = Some(t)]
                       ELSE session.requiredSigners[i]]
        pending == {i \in 1..Len(signers) : signers[i].status = "pending"}
        met == thresholdMet(session, signatures)
    IN [session EXCEPT
           !.signatures = signatures,
           !.requiredSigners = signers,
           !.metadata.signedCount = Len(signatures),
           !.metadata.pendingCount = Cardinality(pending),
           !.status = IF met THEN "completed" ELSE @,
           !.completedAt = IF met THEN Some(t) ELSE @,
           !.lastUpdated = Some(t)]

addSignatureUnverified(session, signerRole, privateKey, signerInfo, t) ==
    IF session.status = "completed" THEN Threw(session, ErrCompleted)
    ELSE IF sessionExpired(session, t) THEN Threw(session, ErrExpired)
    ELSE IF ~isRequiredSigner(session, signerRole)
         THEN Threw(session, ErrNotRequired)
    ELSE IF hasSigned(session, signerRole)
         THEN Threw(session, ErrAlreadySigned)
    ELSE IF signThrows(privateKey) THEN Threw(session, ErrSign)
    ELSE LET signature == sign(session.documentHash, privateKey)
             publicKey == getPublicKeyFromPrivate(privateKey)
         IN IF FALSE
            THEN Threw(session, ErrInvalid)
            ELSE [ok |-> TRUE, error |-> "",
                  session |->
                      acceptSignature(session, signerRole,
                          [signature |-> signature,
                           signer |-> [name |-> signerInfo.name,
                                       role |-> signerRole,
                                       publicKey |-> publicKey],
                           signedAt |-> t,
                           documentHash |-> session.documentHash,
                           valid |-> TRUE], t)]

addSignatureSignFirst(session, signerRole, privateKey, signerInfo, t) ==
    IF session.status = "completed" THEN Threw(session, ErrCompleted)
    ELSE IF sessionExpired(session, t) THEN Threw(session, ErrExpired)
    ELSE IF ~isRequiredSigner(session, signerRole)
         THEN Threw(session, ErrNotRequired)
    ELSE IF signThrows(privateKey) THEN Threw(session, ErrSign)
    ELSE IF hasSigned(session, signerRole)
         THEN Threw(session, ErrAlreadySigned)
    ELSE LET signature == sign(session.documentHash, privateKey)
             publicKey == getPublicKeyFromPrivate(privateKey)
         IN IF ~verify(signature, session.documentHash, publicKey)
            THEN Threw(session, ErrInvalid)
            ELSE [ok |-> TRUE, error |-> "",
                  session |->
                      acceptSignature(session, signerRole,
                          [signature |-> signature,
                           signer |-> [name |-> signerInfo.name,
                                       role |-> signerRole,
                                       publicKey |-> publicKey],
                           signedAt |-> t,
                           documentHash |-> session.documentHash,
                           valid |-> TRUE], t)]

(* addSignature(session, signerRole, privateKey, signerInfo) at time t:     *)
(* the error it throws, or the session it returns.                          *)
addSignature(session, signerRole, privateKey, signerInfo, t) ==
    IF session.status = "completed" THEN Threw(session, ErrCompleted)
    ELSE IF sessionExpired(session, t) THEN Threw(session, ErrExpired)
    ELSE IF ~isRequiredSigner(session, signerRole)
         THEN Threw(session, ErrNotRequired)
    ELSE IF hasSigned(session, signerRole)
         THEN Threw(session, ErrAlreadySigned)
    ELSE IF signThrows(privateKey) THEN Threw(session, ErrSign)
    ELSE LET signature == sign(session.documentHash, privateKey)
             publicKey == getPublicKeyFromPrivate(privateKey)
         IN IF ~verify(signature, session.documentHash, publicKey)
            THEN Threw(session, ErrInvalid)
            ELSE [ok |-> TRUE, error |-> "",
                  session |->
                      acceptSignature(session, signerRole,
                          [signature |-> signature,
                           signer |-> [name |-> signerInfo.name,
                                       role |-> signerRole,
                                       publicKey |-> publicKey],
                           signedAt |-> t,
                           documentHash |-> session.documentHash,
                           valid |-> TRUE], t)]

(* verifyMultiSignature(session, document): the inner try/catch turns a     *)
(* throwing verification into an entry with valid = false.                  *)
signatureResultNoCatch(session, signature) ==
    [signer |-> signature.signer,
     valid |-> verify(signature.signature, session.documentHash,
                      signature.signer.publicKey)]

signatureResult(session, signature) ==
    LET isValid ==
            /\ ~verifyThrows(signature.signature, signature.signer.publicKey)
            /\ verify(signature.signature, session.documentHash,
                      signature.signer.publicKey)
    IN [signer |-> signature.signer, valid |-> isValid]

verifyMultiSignatureCountsAll(session, document) ==
    LET documentHash == hashDocument(HashInput(document))
        results == [i \in 1..Len(session.signatures) |->
                       signatureResult(session, session.signatures[i])]
        validSignatures ==
            Cardinality({i \in 1..Len(results) : results[i].valid})
        isThresholdMet == Len(session.signatures) >= session.threshold
    IN IF documentHash # session.documentHash
       THEN [valid |-> FALSE,
             reason |-> "Document has been modified after signing",
             documentHashMatch |-> FALSE,
             totalSignatures |-> Undefined,
             validSignatures |-> Undefined,
             signatureResults |-> <<>>]
       ELSE [valid |-> isThresholdMet,
             reason |-> IF isThresholdMet
                        THEN "Valid multi-signature"
                        ELSE "Insufficient valid signatures",
             documentHashMatch |-> TRUE,
             totalSignatures |-> Some(Len(session.signatures)),
             validSignatures |-> Some(validSignatures),
             signatureResults |-> results]

verifyMultiSignature(session, document) ==
    LET documentHash == hashDocument(HashInput(document))
        results == [i \in 1..Len(session.signatures) |->
                       signatureResult(session, session.signatures[i])]
        validSignatures ==
            Cardinality({i \in 1..Len(results) : results[i].valid})
        isThresholdMet == validSignatures >= session.threshold
    IN IF documentHash # session.documentHash
       THEN [valid |-> FALSE,
             reason |-> "Document has been modified after signing",
             documentHashMatch |-> FALSE,
             totalSignatures |-> Undefined,
             validSignatures |-> Undefined,
             signatureResults |-> <<>>]
       ELSE [valid |-> isThresholdMet,
             reason |-> IF isThresholdMet
                        THEN "Valid multi-signature"
                        ELSE "Insufficient valid signatures",
             documentHashMatch |-> TRUE,
             totalSignatures |-> Some(Len(session.signatures)),
             validSignatures |-> Some(validSignatures),
             signatureResults |-> results]

ErrNotCompleted ==
    "Failed to create aggregated signature: Multi-signature session is not completed"

aggregatedSignatureReversed(session) ==
    [type |-> "multi-signature",
     algorithm |-> "EdDSA-Multi",
     sessionId |-> session.sessionId,
     documentId |-> session.documentId,
     documentHash |-> session.documentHash,
     threshold |-> session.threshold,
     signatures |->
         [i \in 1..Len(session.signatures) |->
             [signer |-> [role |-> session.signatures[Len(session.signatures) + 1 - i].signer.role,
                          name |-> session.signatures[Len(session.signatures) + 1 - i].signer.name,
                          publicKey |->
                              session.signatures[Len(session.signatures) + 1 - i].signer.publicKey],
              signature |-> session.signatures[Len(session.signatures) + 1 - i].signature,
              signedAt |-> session.signatures[Len(session.signatures) + 1 - i].signedAt]],
     metadata |-> [totalSigners |-> Len(session.signatures),
                   completedAt |-> session.completedAt]]

(* The aggregate built from a session: its signatures in stored order. *)
aggregatedSignature(session) ==
    [type |-> "multi-signature",
     algorithm |-> "EdDSA-Multi",
     sessionId |-> session.sessionId,
     documentId |-> session.documentId,
     documentHash |-> session.documentHash,
     threshold |-> session.threshold,
     signatures |->
         [i \in 1..Len(session.signatures) |->
             [signer |-> [role |-> session.signatures[i].signer.role,
                          name |-> session.signatures[i].signer.name,
                          publicKey |->
                              session.signatures[i].signer.publicKey],
              signature |-> session.signatures[i].signature,
              signedAt |-> session.signatures[i].signedAt]],
     metadata |-> [totalSigners |-> Len(session.signatures),
                   completedAt |-> session.completedAt]]

createAggregatedSignatureAnyStatus(session) ==
    [ok |-> TRUE, error |-> "",
     aggregate |-> Some(aggregatedSignature(session))]

(* createAggregatedSignature(session) *)
createAggregatedSignature(session) ==
    IF session.status # "completed"
    THEN [ok |-> FALSE, error |-> ErrNotCompleted, aggregate |-> Undefined]
    ELSE [ok |-> TRUE, error |-> "",
          aggregate |-> Some(aggregatedSignature(session))]

getSigningProgressFloor(session, t) ==
    LET signedRoles == {session.signatures[i].signer.role :
                            i \in 1..Len(session.signatures)}
        isPending(s) == s.role \notin signedRoles
    IN [status |-> session.status,
        signed |-> Len(session.signatures),
        total |-> Len(session.requiredSigners),
        threshold |-> session.threshold,
        percentage |->
            (100 * Len(session.signatures)) \div session.threshold,
        signedRoles |-> [i \in 1..Len(session.signatures) |->
                            session.signatures[i].signer.role],
        pendingRoles |->
            LET p == SelectSeq(session.requiredSigners, isPending)
            IN [i \in 1..Len(p) |-> p[i].role],
        completedAt |-> session.completedAt,
        isExpired |-> sessionExpired(session, t)]

(* getSigningProgress(session) at time t; percentage is                     *)
(* Math.round(signed / threshold * 100), half rounding up.                  *)
getSigningProgress(session, t) ==
    LET signedRoles == {session.signatures[i].signer.role :
                            i \in 1..Len(session.signatures)}
        isPending(s) == s.role \notin signedRoles
    IN [status |-> session.status,
        signed |-> Len(session.signatures),
        total |-> Len(session.requiredSigners),
        threshold |-> session.threshold,
        percentage |->
            (200 * Len(session.signatures) + session.threshold)
                \div (2 * session.threshold),
        signedRoles |-> [i \in 1..Len(session.signatures) |->
                            session.signatures[i].signer.role],
        pendingRoles |->
            LET p == SelectSeq(session.requiredSigners, isPending)
            IN [i \in 1..Len(p) |-> p[i].role],
        completedAt |-> session.completedAt,
        isExpired |-> sessionExpired(session, t)]

----------------------------------------------------------------------------
(* Responses *)

Response(op, code, message, error) ==
    [op |-> op, code |-> code, message |-> message, error |-> error,
     errors |-> <<>>, body |-> Undefined]

NoResponse == Response("none", 0, "", "")

NoSession == 0

Put(store, id, value) ==
    [k \in DOMAIN store \cup {id} |-> IF k = id THEN value ELSE store[k]]

Remove(store, id) == [k \in DOMAIN store \ {id} |-> store[k]]

EmptyStore == [k \in {} |-> 0]

----------------------------------------------------------------------------
(* JSON.stringify and JSON.parse *)

(* The lengths of the strings the services generate: a UUID, a SHA-256 hex *)
(* digest, an ISO timestamp, and the base64 forms of a 64-byte signature    *)
(* and of a 32-byte public key.                                             *)
UUID_LENGTH == 36
HASH_HEX_LENGTH == 64
ISO_DATE_LENGTH == 24
SIGNATURE_B64_LENGTH == 88
PUBLIC_KEY_B64_LENGTH == 44

RECURSIVE SumOf(_)
SumOf(lengths) ==
    IF lengths = <<>> THEN 0 ELSE Head(lengths) + SumOf(Tail(lengths))

(* The length of the JSON text of a string of n characters (none of them   *)
(* needing an escape), of an array whose elements have the given lengths,   *)
(* and of an object whose members are <<key, length of the value>>.         *)
JsonString(n) == n + 2

JsonArray(lengths) ==
    2 + SumOf(lengths) + (IF Len(lengths) > 0 THEN Len(lengths) - 1 ELSE 0)

JsonObject(members) ==
    JsonArray([i \in 1..Len(members) |->
                  JsonString(Len(members[i][1])) + 1 + members[i][2]])

(* A text is the JSON of an object, the JSON of null, or no JSON at all,   *)
(* on which JSON.parse throws.  JSON.stringify(value) is the text that      *)
(* carries the object; JSON.parse gives back its members.                   *)
Stringify(value) == [kind |-> "object", json |-> value]

JsonNull == [kind |-> "null"]

NotJson == [kind |-> "text"]

IsJson(text) == text.kind # "text"

(* obj[name] of a parsed value: undefined when the member is absent. *)
Field(obj, name) == IF name \in DOMAIN obj THEN Some(obj[name]) ELSE Undefined

----------------------------------------------------------------------------
(* QRCodeService *)

QR_SIZE_LIMIT == 2000
HASH_PREFIX_LENGTH == 16
VERIFICATION_TTL_DAYS == 30

(* signatureData.signatures is an array: the artifact is an aggregate. *)
hasSignatures(signatureData) == "signatures" \in DOMAIN signatureData

(* documentHash.substring(0, n) *)
substring(hash, n) == [prefixOf |-> hash, length |-> Min(n, HASH_HEX_LENGTH)]

(* The verification payload generateDocumentQR builds at time t. *)
verificationPayload(signatureData, documentMetadata, t) ==
    [type |-> "document_verification",
     version |-> "1.0",
     documentId |-> documentMetadata.id,
     documentHash |-> signatureData.documentHash,
     signatureType |-> IF "type" \in DOMAIN signatureData
                       THEN signatureData.type ELSE "single",
     timestamp |-> t,
     metadata |-> [title |-> documentMetadata.title,
                   type |-> documentMetadata.type,
                   issuer |-> documentMetadata.issuer,
                   recipient |-> documentMetadata.recipient,
                   issueDate |-> documentMetadata.issueDate],
     signature |->
         [algorithm |-> Field(signatureData, "algorithm"),
          data |-> IF hasSignatures(signatureData)
                   THEN signatureData.signatures
                   ELSE signatureData.signature,
          signers |->
              <<IF "signer" \in DOMAIN signatureData
                THEN [role |-> Field(signatureData.signer, "role"),
                      name |-> Field(signatureData.signer, "name"),
                      publicKey |->
                          Field(signatureData.signer, "publicKey")]
                ELSE [role |-> Undefined, name |-> Undefined,
                      publicKey |-> Undefined]>>]]

(* JSON.stringify(verificationPayload).length *)
signerLength(signer) ==
    JsonObject(<<(<<"role", JsonString(Len(signer.role))>>),
                 (<<"name", JsonString(Len(signer.name))>>),
                 (<<"publicKey", JsonString(PUBLIC_KEY_B64_LENGTH)>>)>>)

(* A member whose value is undefined is left out of the text. *)
firstSignerLength(signer) ==
    JsonObject(
        (IF IsDefined(signer.role)
         THEN <<(<<"role", JsonString(Len(signer.role[1]))>>)>> ELSE <<>>)
        \o (IF IsDefined(signer.name)
            THEN <<(<<"name", JsonString(Len(signer.name[1]))>>)>> ELSE <<>>)
        \o (IF IsDefined(signer.publicKey)
            THEN <<(<<"publicKey", JsonString(PUBLIC_KEY_B64_LENGTH)>>)>>
            ELSE <<>>))

entryLength(entry) ==
    JsonObject(<<(<<"signer", signerLength(entry.signer)>>),
                 (<<"signature", JsonString(SIGNATURE_B64_LENGTH)>>),
                 (<<"signedAt", JsonString(ISO_DATE_LENGTH)>>)>>)

payloadLength(payload) ==
    LET metadata == payload.metadata
        signature == payload.signature
        isArray == payload.signatureType # "single"
        dataLength ==
            IF isArray
            THEN JsonArray([i \in 1..Len(signature.data) |->
                               entryLength(signature.data[i])])
            ELSE JsonString(SIGNATURE_B64_LENGTH)
        signersLength ==
            JsonArray(<<firstSignerLength(signature.signers[1])>>)
    IN JsonObject(
        <<(<<"type", JsonString(Len(payload.type))>>),
          (<<"version", JsonString(Len(payload.version))>>),
          (<<"documentId", JsonString(UUID_LENGTH)>>),
          (<<"documentHash", JsonString(HASH_HEX_LENGTH)>>),
          (<<"signatureType", JsonString(Len(payload.signatureType))>>),
          (<<"timestamp", JsonString(ISO_DATE_LENGTH)>>),
          (<<"metadata",
             JsonObject(
                 <<(<<"title", JsonString(Len(metadata.title))>>),
                   (<<"type", JsonString(Len(metadata.type))>>),
                   (<<"issuer", JsonString(Len(metadata.issuer))>>),
                   (<<"recipient", JsonString(Len(metadata.recipient))>>),
                   (<<"issueDate", JsonString(ISO_DATE_LENGTH)>>)>>)>>),
          (<<"signature",
             JsonObject(
                 (IF IsDefined(signature.algorithm)
                  THEN <<(<<"algorithm",
                            JsonString(Len(signature.algorithm[1]))>>)>>
                  ELSE <<>>)
                 \o <<(<<"data", dataLength>>),
                      (<<"signers", signersLength>>)>>)>>)>>)

storeVerificationDataSessionTtl(store, verificationId, data, t) ==
    Put(store, verificationId,
        [data |-> data, createdAt |-> t, expiresAt |-> t + SESSION_TTL_DAYS])

(* _storeVerificationData(verificationId, data) at time t *)
storeVerificationData(store, verificationId, data, t) ==
    Put(store, verificationId,
        [data |-> data, createdAt |-> t,
         expiresAt |-> t + VERIFICATION_TTL_DAYS])

(* getStoredVerificationData(verificationId) at time t: the data, or null  *)
(* for an unknown or expired token; an expired entry is deleted.            *)
getStoredVerificationData(store, verificationId, t) ==
    IF verificationId \notin DOMAIN store
    THEN [data |-> Undefined, store |-> store]
    ELSE IF t > store[verificationId].expiresAt
    THEN [data |-> Undefined, store |-> Remove(store, verificationId)]
    ELSE [data |-> Some(store[verificationId].data), store |-> store]

(* The data of the reference variant. *)
verificationUrlWholeHash(signatureData, documentMetadata, verificationId) ==
    [type |-> "verification_url",
     verificationId |-> verificationId,
     url |-> [path |-> "/api/verification/", id |-> verificationId],
     documentId |-> documentMetadata.id,
     quickVerify |->
         [documentHash |->
              substring(signatureData.documentHash, HASH_HEX_LENGTH),
          signatureCount |-> IF hasSignatures(signatureData)
                             THEN Len(signatureData.signatures) ELSE 1]]

verificationUrl(signatureData, documentMetadata, verificationId) ==
    [type |-> "verification_url",
     verificationId |-> verificationId,
     url |-> [path |-> "/api/verification/", id |-> verificationId],
     documentId |-> documentMetadata.id,
     quickVerify |->
         [documentHash |->
              substring(signatureData.documentHash, HASH_PREFIX_LENGTH),
          signatureCount |-> IF hasSignatures(signatureData)
                             THEN Len(signatureData.signatures) ELSE 1]]

(* generateDocumentQR(signatureData, documentMetadata) at time t, where    *)
(* verificationId is the value crypto.randomUUID() returns if it is called. *)
(* The rendering of qrData as an image is left out.                         *)
generateDocumentQRInclusive(signatureData, documentMetadata, verificationId, t) ==
    LET payload == verificationPayload(signatureData, documentMetadata, t)
        size == payloadLength(payload)
    IN [qrData |->
            IF size >= QR_SIZE_LIMIT
            THEN Stringify(verificationUrl(signatureData, documentMetadata,
                                           verificationId))
            ELSE Stringify(payload),
        payload |-> payload,
        size |-> size,
        compressed |-> size >= QR_SIZE_LIMIT,
        stored |-> IF size >= QR_SIZE_LIMIT
                   THEN Some(verificationId) ELSE Undefined]

generateDocumentQR(signatureData, documentMetadata, verificationId, t) ==
    LET payload == verificationPayload(signatureData, documentMetadata, t)
        size == payloadLength(payload)
    IN [qrData |->
            IF size > QR_SIZE_LIMIT
            THEN Stringify(verificationUrl(signatureData, documentMetadata,
                                           verificationId))
            ELSE Stringify(payload),
        payload |-> payload,
        size |-> size,
        compressed |-> size > QR_SIZE_LIMIT,
        stored |-> IF size > QR_SIZE_LIMIT
                   THEN Some(verificationId) ELSE Undefined]

ErrUnknownFormat == "Failed to parse QR data: Unknown QR code format"
ErrJsonSyntax == "Failed to parse QR data: Unexpected token"
ErrNotAnObject == "Failed to parse QR data: Cannot read properties of null"

ParseFailure(error) ==
    [ok |-> FALSE, error |-> error, type |-> "",
     verificationId |-> Undefined, url |-> Undefined,
     documentId |-> Undefined, quickVerify |-> Undefined,
     payload |-> Undefined]

(* parseQRData(qrData) *)
parseQRDataEmbeddedOnly(qrData) ==
    IF ~IsJson(qrData) THEN ParseFailure(ErrJsonSyntax)
    ELSE LET parsedData == IF qrData.kind = "object" THEN qrData.json
                           ELSE Undefined
         IN IF qrData.kind = "null" THEN ParseFailure(ErrNotAnObject)
            ELSE IF Field(parsedData, "type") = Some("verification")
            THEN [ok |-> TRUE, error |-> "", type |-> "url_verification",
                  verificationId |-> Field(parsedData, "verificationId"),
                  url |-> Field(parsedData, "url"),
                  documentId |-> Field(parsedData, "documentId"),
                  quickVerify |-> Field(parsedData, "quickVerify"),
                  payload |-> Undefined]
            ELSE IF Field(parsedData, "type") = Some("document_verification")
            THEN [ok |-> TRUE, error |-> "",
                  type |-> "embedded_verification",
                  verificationId |-> Undefined, url |-> Undefined,
                  documentId |-> Undefined, quickVerify |-> Undefined,
                  payload |-> Some(parsedData)]
            ELSE ParseFailure(ErrUnknownFormat)

parseQRDataAnyTag(qrData) ==
    IF ~IsJson(qrData) THEN ParseFailure(ErrJsonSyntax)
    ELSE LET parsedData == IF qrData.kind = "object" THEN qrData.json
                           ELSE Undefined
         IN IF qrData.kind = "null" THEN ParseFailure(ErrNotAnObject)
            ELSE IF Field(parsedData, "type") = Some("verification_url")
            THEN [ok |-> TRUE, error |-> "", type |-> "url_verification",
                  verificationId |-> Field(parsedData, "verificationId"),
                  url |-> Field(parsedData, "url"),
                  documentId |-> Field(parsedData, "documentId"),
                  quickVerify |-> Field(parsedData, "quickVerify"),
                  payload |-> Undefined]
            ELSE IF IsDefined(Field(parsedData, "type"))
            THEN [ok |-> TRUE, error |-> "",
                  type |-> "embedded_verification",
                  verificationId |-> Undefined, url |-> Undefined,
                  documentId |-> Undefined, quickVerify |-> Undefined,
                  payload |-> Some(parsedData)]
            ELSE ParseFailure(ErrUnknownFormat)

parseQRData(qrData) ==
    IF ~IsJson(qrData) THEN ParseFailure(ErrJsonSyntax)
    ELSE LET parsedData == IF qrData.kind = "object" THEN qrData.json
                           ELSE Undefined
         IN IF qrData.kind = "null" THEN ParseFailure(ErrNotAnObject)
            ELSE IF Field(parsedData, "type") = Some("verification_url")
            THEN [ok |-> TRUE, error |-> "", type |-> "url_verification",
                  verificationId |-> Field(parsedData, "verificationId"),
                  url |-> Field(parsedData, "url"),
                  documentId |-> Field(parsedData, "documentId"),
                  quickVerify |-> Field(parsedData, "quickVerify"),
                  payload |-> Undefined]
            ELSE IF Field(parsedData, "type") = Some("document_verification")
            THEN [ok |-> TRUE, error |-> "",
                  type |-> "embedded_verification",
                  verificationId |-> Undefined, url |-> Undefined,
                  documentId |-> Undefined, quickVerify |-> Undefined,
                  payload |-> Some(parsedData)]
            ELSE ParseFailure(ErrUnknownFormat)

----------------------------------------------------------------------------
(* Request inputs *)

Ids == 1..MaxUuids

Titles == {Some("t1")}
NewTitles == {Some("t2")}
Contents == {"c1"}
Files == {Some("c2")}

(* Secret keys a signer may send: a well-formed key, a 64-byte key whose   *)
(* embedded public key does not belong to its seed, and a 32-byte seed.     *)
PrivateKeys ==
    {[len |-> SECRET_KEY_LENGTH, seed |-> 1, pub |-> 1],
     [len |-> SECRET_KEY_LENGTH, seed |-> 1, pub |-> 2],
     [len |-> PUBLIC_KEY_LENGTH, seed |-> 1, pub |-> 1]}

KeyInputs == {Some(k) : k \in PrivateKeys}

SignerInfo == [name |-> "signer"]

(* Signer lists and thresholds of the prepare-signing requests. *)
SignerLists ==
    {Undefined, Some(<<"dosen">>), Some(<<"dosen", "kaprodi", "dekan">>)}

Thresholds == {Undefined, Some(1)}

(* Prepare-signing requests of every shape: lists of 0..MaxListLen        *)
(* distinct roles, the same lists with the last role repeating the first,   *)
(* no list at all, and thresholds omitted or 0..MaxThreshold.  Roles are     *)
(* free strings: the route does not compare them with the configured ROLES. *)
RoleOrder ==
    <<"dosen", "kaprodi", "dekan", "rektor", "admin", "wadek", "warek",
      "sekretaris">>

DistinctSigners(n) == SubSeq(RoleOrder, 1, Min(n, Len(RoleOrder)))

RepeatedSigners(n) ==
    [DistinctSigners(n) EXCEPT ![Min(n, Len(RoleOrder))] = RoleOrder[1]]

ConfigSignerLists ==
    {Undefined}
        \cup {Some(DistinctSigners(n)) : n \in 0..MaxListLen}
        \cup {Some(RepeatedSigners(n)) : n \in 2..MaxListLen}

ConfigThresholds == {Undefined} \cup {Some(n) : n \in 0..MaxThreshold}

(* Multi-signature data a client may post to the verify route: a session   *)
(* over the hash of either content, with a threshold and up to MaxSigs      *)
(* signatures drawn from two valid ones, one over another hash, one         *)
(* presented with another signer's public key and one of a wrong length.    *)
GoodKey(id) == [len |-> SECRET_KEY_LENGTH, seed |-> id, pub |-> id]

(* The hash of a document whose content is c, as a client computes it. *)
HashOfContent(c) == hashDocument([content |-> c, document |-> Undefined])

ClientHashes == {HashOfContent(c) : c \in {"c1", "c2"}}

ClientSignature(role, signature, keyId) ==
    [signer |-> [role |-> role, publicKey |-> PublicKey(keyId)],
     signature |-> signature]

ClientSignatures(h) ==
    {ClientSignature("dosen", sign(h, GoodKey(1)), 1),
     ClientSignature("kaprodi", sign(h, GoodKey(2)), 2),
     ClientSignature("dekan", sign(HashOfContent("other"), GoodKey(1)), 1),
     ClientSignature("rektor", sign(h, GoodKey(1)), 2),
     ClientSignature("admin",
         [sign(h, GoodKey(1)) EXCEPT !.len = PUBLIC_KEY_LENGTH], 1)}

SeqsUpTo(S, n) == UNION {[1..k -> S] : k \in 0..n}

ClientSessions ==
    {[type |-> "multi", documentHash |-> h, threshold |-> th,
      signatures |-> sigs, status |-> "completed"] :
        h \in ClientHashes, th \in 1..2,
        sigs \in SeqsUpTo(ClientSignatures(HashOfContent("c1")), MaxSigs)}

(* Single-signature objects a client may post, recorded over the hash of   *)
(* either content: with the signer's signature over that hash, with         *)
(* another key's signature over it, and with a signature of a wrong length. *)
ClientSingles ==
    {[type |-> "single", documentHash |-> h,
      signature |-> sig, signer |-> [role |-> "dosen",
                                     publicKey |-> PublicKey(1)],
      metadata |-> [algorithm |-> "Ed25519", signedAt |-> 0]] :
        h \in ClientHashes,
        sig \in {sign(HashOfContent("c1"), GoodKey(1)),
                 sign(HashOfContent("c1"), GoodKey(2)),
                 [sign(HashOfContent("c1"), GoodKey(1))
                     EXCEPT !.len = PUBLIC_KEY_LENGTH]}}

SignatureData ==
    {Undefined} \cup {Some(d) : d \in ClientSessions \cup ClientSingles}

(* Signature artifacts handed to the QR encoder: the single signature of  *)
(* a document, and the aggregates of completed sessions of 2 and of          *)
(* MaxQRSigners signers with short or long names.                           *)
SampleDocument == [id |-> 1, title |-> "t1", content |-> "c1"]

LongName ==
    "Prof. Dr. Ir. H. Muhammad Abdurrahman Al-Makassari, S.T., M.T., Ph.D."

RECURSIVE SignedBy(_, _, _)
SignedBy(session, n, name) ==
    IF n = 0 THEN session
    ELSE LET before == SignedBy(session, n - 1, name)
         IN addSignature(before, before.requiredSigners[n].role, GoodKey(n),
                         [name |-> name], 0).session

CompletedSession(n, name) ==
    SignedBy(initializeMultiSigSession(2, SampleDocument, DistinctSigners(n),
                                       Some(n), 0), n, name)

Artifacts ==
    {signDocument(SampleDocument, GoodKey(1), SignerInfo, 0).signature[1]}
        \cup {aggregatedSignature(CompletedSession(n, name)) :
                 n \in {2, MaxQRSigners}, name \in {"signer", LongName}}

(* The document metadata the qr-code route passes on, with a given title. *)
DocumentMetadata(title) ==
    [id |-> SampleDocument.id, title |-> title, type |-> "ijazah",
     issuer |-> "Universitas Muhammadiyah Makassar",
     recipient |-> "recipient", issueDate |-> 0]

(* A title of n characters. *)
RECURSIVE TitleOfLength(_)
TitleOfLength(n) ==
    IF n = 0 THEN ""
    ELSE LET half == TitleOfLength(n \div 2)
         IN IF n % 2 = 0 THEN half \o half ELSE half \o half \o "x"

(* Encoding requests: every artifact with a short title and, where a title *)
(* can do it, with the titles that bring the serialized payload to one      *)
(* below, exactly at, and one above the size limit.                         *)
QRRequests ==
    UNION {
        LET bare == payloadLength(
                        verificationPayload(a, DocumentMetadata(""), 0))
        IN {[signatureData |-> a, documentMetadata |-> DocumentMetadata(t)] :
              t \in {"t1"} \cup
                    {TitleOfLength(QR_SIZE_LIMIT + d - bare) :
                        d \in {e \in -1..1 : QR_SIZE_LIMIT + e >= bare}}} :
        a \in Artifacts}

(* Texts a client may hand to the decoder besides a QR just produced. *)
QRInputs ==
    {NotJson, JsonNull,
     Stringify([type |-> "signing_request", sessionId |-> 1,
                signerRole |-> "dosen"]),
     Stringify([type |-> "verification_report", documentId |-> 1,
                valid |-> TRUE]),
     Stringify([documentId |-> 1]),
     Stringify([type |-> "verification_url"])}

(* Arguments of direct calls of sign and verify: three messages, the       *)
(* secret keys above and a second well-formed one, every signature these    *)
(* make, a signature and a public key of a wrong length, and a missing      *)
(* signature or public key.                                                 *)
Messages == {HashOfContent(c) : c \in {"c1", "c2", "other"}}

SigningKeys == PrivateKeys \cup {GoodKey(2)}

SignatureArguments ==
    {Undefined}
        \cup {Some(sign(m, k)) :
                 m \in Messages, k \in {k \in SigningKeys : ~signThrows(k)}}
        \cup {Some([sign(HashOfContent("c1"), GoodKey(1))
                       EXCEPT !.len = PUBLIC_KEY_LENGTH])}

PublicKeyArguments ==
    {Undefined, Some(PublicKey(1)), Some(PublicKey(2)),
     Some([PublicKey(1) EXCEPT !.len = SIGNATURE_LENGTH])}

(* Requests to the key routes: the signerInfo of a generate request, and   *)
(* the headers of a private-key request as the handler receives them, with  *)
(* their names in lower case.                                               *)
ValidRoles == Roles \cup {"admin"}

KeySignerInfos ==
    {Undefined,
     Some([role |-> "dosen", name |-> "signer"]),
     Some([role |-> "admin", name |-> "signer"]),
     Some([role |-> "wadek", name |-> "signer"])}

RevocationReasons == {Undefined, Some("compromised")}

RequestHeaders == {[accept |-> "*/*"],
                   [accept |-> "*/*", authtoken |-> "token"]}

----------------------------------------------------------------------------
(* Routes *)

(* POST /api/documents *)
CreateDocument(title, content) ==
    /\ uuid < MaxUuids
    /\ IF ~IsDefined(title)
       THEN /\ resp' = Response("createDocument", 400,
                           "Missing required fields: title, type, recipient", "")
            /\ UNCHANGED <<documentStore, multiSigStore, uuid, cancelled, now,
                         verificationStore, keyStore, requests, signatureStore>>
       ELSE LET id == uuid + 1
                document ==
                    [id |-> id, title |-> title[1], content |-> content,
                     status |-> "draft", multiSigSessionId |-> NoSession,
                     signature |-> Undefined, signedAt |-> Undefined,
                     hash |-> hashDocument([id |-> id, title |-> title[1],
                                            content |-> content])]
            IN /\ documentStore' = Put(documentStore, id, document)
               /\ uuid' = id
               /\ resp' = Response("createDocument", 201,
                              "Document created successfully", "")
               /\ UNCHANGED <<multiSigStore, cancelled, now, verificationStore, keyStore, requests, signatureStore>>

(* PUT /api/documents/:id *)
UpdateDocument(id, title, file) ==
    IF id \notin DOMAIN documentStore
    THEN /\ resp' = Response("updateDocument", 404,
                        "Document not found", "")
         /\ UNCHANGED <<documentStore, multiSigStore, uuid, cancelled, now,
                         verificationStore, keyStore, requests, signatureStore>>
    ELSE IF documentStore[id].status = "signed"
    THEN /\ resp' = Response("updateDocument", 400,
                        "Cannot update signed document", "")
         /\ UNCHANGED <<documentStore, multiSigStore, uuid, cancelled, now,
                         verificationStore, keyStore, requests, signatureStore>>
    ELSE LET old == documentStore[id]
             newTitle == IF IsDefined(title) THEN title[1] ELSE old.title
             newContent == IF IsDefined(file) THEN file[1] ELSE old.content
             document ==
                 [old EXCEPT
                     !.title = newTitle,
                     !.content = newContent,
                     !.hash = hashDocument([id |-> old.id, title |-> newTitle,
                                            content |-> newContent])]
         IN /\ documentStore' = Put(documentStore, id, document)
            /\ resp' = Response("updateDocument", 200,
                           "Document updated successfully", "")
            /\ UNCHANGED <<multiSigStore, uuid, cancelled, now, verificationStore, keyStore, requests, signatureStore>>

(* DELETE /api/documents/:id *)
DeleteDocument(id) ==
    IF id \notin DOMAIN documentStore
    THEN /\ resp' = Response("deleteDocument", 404,
                        "Document not found", "")
         /\ UNCHANGED <<documentStore, multiSigStore, uuid, cancelled, now,
                         verificationStore, keyStore, requests, signatureStore>>
    ELSE IF documentStore[id].status = "signed"
    THEN /\ resp' = Response("deleteDocument", 400,
                        "Cannot delete signed document", "")
         /\ UNCHANGED <<documentStore, multiSigStore, uuid, cancelled, now,
                         verificationStore, keyStore, requests, signatureStore>>
    ELSE /\ documentStore' = Remove(documentStore, id)
         /\ resp' = Response("deleteDocument", 200,
                        "Document deleted successfully", "")
         /\ UNCHANGED <<multiSigStore, uuid, cancelled, now, verificationStore, keyStore, requests, signatureStore>>

(* POST /api/documents/:id/prepare-signing *)
PrepareSigning(id, signers, threshold) ==
    /\ IF id \notin DOMAIN documentStore
       THEN /\ resp' = Response("prepareSigning", 404,
                           "Document not found", "")
            /\ UNCHANGED <<documentStore, multiSigStore, uuid, cancelled, now,
                         verificationStore, keyStore, requests, signatureStore>>
       ELSE LET validation == validateMultiSigConfig(signers, threshold)
            IN IF validation.threw
               THEN /\ resp' = Response("prepareSigning", 500,
                                   "Failed to prepare document for signing",
                                   "TypeError")
                    /\ UNCHANGED <<documentStore, multiSigStore, uuid, cancelled, now,
                         verificationStore, keyStore, requests, signatureStore>>
               ELSE IF ~validation.valid
               THEN /\ resp' =
                           [Response("prepareSigning", 400,
                                "Invalid multi-signature configuration", "")
                            EXCEPT !.errors = validation.errors]
                    /\ UNCHANGED <<documentStore, multiSigStore, uuid, cancelled, now,
                         verificationStore, keyStore, requests, signatureStore>>
               ELSE LET sessionId == uuid + 1
                        session ==
                            initializeMultiSigSession(sessionId,
                                documentStore[id], signers[1], threshold, now)
                    IN /\ uuid < MaxUuids
                       /\ multiSigStore' =
                              Put(multiSigStore, sessionId, session)
                       /\ documentStore' =
                              [documentStore EXCEPT
                                  ![id].status = "pending_signatures",
                                  ![id].multiSigSessionId = sessionId]
                       /\ uuid' = sessionId
                       /\ resp' =
                              [Response("prepareSigning", 200,
                                   "Document prepared for multi-signature", "")
                               EXCEPT !.body =
                                   Some(getSigningProgress(session, now))]
                       /\ UNCHANGED <<cancelled, now, verificationStore, keyStore, requests, signatureStore>>

(* POST /api/signatures/single *)
SignSingle(documentId, privateKey) ==
    IF ~IsDefined(privateKey)
    THEN /\ resp' = Response("signSingle", 400,
                        "Missing required fields: documentId, signerInfo, privateKey",
                        "")
         /\ UNCHANGED <<documentStore, multiSigStore, uuid, cancelled, now,
                        verificationStore, keyStore, requests, signatureStore>>
    ELSE IF documentId \notin DOMAIN documentStore
    THEN /\ resp' = Response("signSingle", 404, "Document not found", "")
         /\ UNCHANGED <<documentStore, multiSigStore, uuid, cancelled, now,
                        verificationStore, keyStore, requests, signatureStore>>
    ELSE LET signed == signDocument(documentStore[documentId], privateKey[1],
                                    SignerInfo, now)
         IN IF signed.threw
            THEN /\ resp' = Response("signSingle", 500,
                                "Failed to create signature", ErrSign)
                 /\ UNCHANGED <<documentStore, multiSigStore, uuid, cancelled,
                                now, verificationStore, keyStore, requests,
                                signatureStore>>
            ELSE LET signature == signed.signature[1]
                 IN /\ signatureStore' =
                           Put(signatureStore, signature.documentId, signature)
                    /\ documentStore' =
                           [documentStore EXCEPT
                               ![documentId].status = "signed",
                               ![documentId].signature = Some(signature),
                               ![documentId].signedAt =
                                   Some(signature.metadata.signedAt)]
                    /\ resp' = Response("signSingle", 200,
                                   "Document signed successfully", "")
                    /\ UNCHANGED <<multiSigStore, uuid, cancelled, now,
                                   verificationStore, keyStore, requests>>

(* POST /api/signatures/multi/:sessionId/:role: the handler, which runs   *)
(* from its first statement to its response without an await.              *)
addSignatureRoute(sessionId, role, privateKey) ==
    IF ~IsDefined(privateKey)
    THEN /\ resp' = Response("addSignature", 400,
                        "Missing required fields: signerInfo, privateKey", "")
         /\ UNCHANGED <<documentStore, multiSigStore, uuid, cancelled, now,
                         verificationStore, keyStore, signatureStore>>
    ELSE IF sessionId \notin DOMAIN multiSigStore
    THEN /\ resp' = Response("addSignature", 404,
                        "Multi-signature session not found", "")
         /\ UNCHANGED <<documentStore, multiSigStore, uuid, cancelled, now,
                         verificationStore, keyStore, signatureStore>>
    ELSE LET added == addSignature(multiSigStore[sessionId], role,
                                   privateKey[1], SignerInfo, now)
             updatedSession == added.session
             documentId == updatedSession.documentId
         IN IF ~added.ok
            THEN /\ resp' = Response("addSignature", 500,
                                "Failed to add signature", added.error)
                 /\ UNCHANGED <<documentStore, multiSigStore, uuid, cancelled, now,
                         verificationStore, keyStore, signatureStore>>
            ELSE /\ multiSigStore' =
                        Put(multiSigStore, sessionId, updatedSession)
                 /\ documentStore' =
                        IF /\ updatedSession.status = "completed"
                           /\ documentId \in DOMAIN documentStore
                        THEN [documentStore EXCEPT
                                 ![documentId].status = "signed",
                                 ![documentId].signedAt =
                                     updatedSession.completedAt]
                        ELSE documentStore
                 /\ resp' =
                        [Response("addSignature", 200,
                             "Signature added successfully", "")
                         EXCEPT !.body =
                             Some(getSigningProgress(updatedSession, now))]
                 /\ UNCHANGED <<uuid, cancelled, now, verificationStore, keyStore, signatureStore>>

(* One add-signature request, received and handled. *)
AddSignature(sessionId, role, privateKey) ==
    /\ addSignatureRoute(sessionId, role, privateKey)
    /\ UNCHANGED requests

(* Concurrent add-signature requests.  A request is received (its route   *)
(* parameters and body are parsed) and waits for its handler; the event     *)
(* loop runs the handlers of the waiting requests one at a time, in any     *)
(* order, each from its first statement to its response.                    *)
Waiting == 0

ReceiveAddSignature(sessionId, role, privateKey) ==
    /\ Len(requests) < MaxRequests
    /\ requests' = Append(requests,
                       [sessionId |-> sessionId, role |-> role,
                        privateKey |-> privateKey,
                        code |-> Waiting, error |-> ""])
    /\ UNCHANGED <<documentStore, multiSigStore, uuid, cancelled, now,
                   verificationStore, keyStore, resp, signatureStore>>

HandleAddSignature(i) ==
    /\ i \in DOMAIN requests
    /\ requests[i].code = Waiting
    /\ addSignatureRoute(requests[i].sessionId, requests[i].role,
                         requests[i].privateKey)
    /\ requests' = [requests EXCEPT ![i].code = resp'.code,
                                    ![i].error = resp'.error]

(* GET /api/signatures/session/:sessionId *)
GetSession(sessionId) ==
    /\ IF sessionId \notin DOMAIN multiSigStore
       THEN resp' = Response("getSession", 404,
                        "Multi-signature session not found", "")
       ELSE resp' =
                [Response("getSession", 200,
                     "Session retrieved successfully", "")
                 EXCEPT !.body =
                     Some(getSigningProgress(multiSigStore[sessionId], now))]
    /\ UNCHANGED <<documentStore, multiSigStore, uuid, cancelled, now,
                         verificationStore, keyStore, requests, signatureStore>>

canBeCancelledAlways(session) == TRUE

(* "Check if session can be cancelled" *)
canBeCancelled(session) == session.status # "completed"

(* DELETE /api/signatures/session/:sessionId *)
CancelSession(sessionId) ==
    IF sessionId \notin DOMAIN multiSigStore
    THEN /\ resp' = Response("cancelSession", 404,
                        "Multi-signature session not found", "")
         /\ UNCHANGED <<documentStore, multiSigStore, uuid, cancelled, now,
                         verificationStore, keyStore, requests, signatureStore>>
    ELSE IF ~canBeCancelled(multiSigStore[sessionId])
    THEN /\ resp' = Response("cancelSession", 400,
                        "Cannot cancel completed session", "")
         /\ UNCHANGED <<documentStore, multiSigStore, uuid, cancelled, now,
                         verificationStore, keyStore, requests, signatureStore>>
    ELSE LET documentId == multiSigStore[sessionId].documentId
         IN /\ documentStore' =
                   IF documentId \in DOMAIN documentStore
                   THEN [documentStore EXCEPT
                            ![documentId].status = "draft",
                            ![documentId].multiSigSessionId = NoSession]
                   ELSE documentStore
            /\ multiSigStore' = Remove(multiSigStore, sessionId)
            /\ cancelled' = cancelled \cup {sessionId}
            /\ resp' = Response("cancelSession", 200,
                           "Multi-signature session cancelled successfully", "")
            /\ UNCHANGED <<uuid, now, verificationStore, keyStore, requests, signatureStore>>

(* POST /api/signatures/verify *)
VerifySignature(documentId, signatureData) ==
    /\ IF documentId \notin DOMAIN documentStore
       THEN resp' = Response("verifySignature", 404, "Document not found", "")
       ELSE LET document == documentStore[documentId]
            IN IF IsDefined(signatureData) /\ signatureData[1].type = "multi"
               THEN resp' =
                        [Response("verifySignature", 200,
                             "Signature verification completed", "")
                         EXCEPT !.body =
                             Some(verifyMultiSignature(signatureData[1],
                                                       document))]
               ELSE IF IsDefined(document.signature) \/ IsDefined(signatureData)
               THEN LET signature == IF IsDefined(signatureData)
                                     THEN signatureData[1]
                                     ELSE document.signature[1]
                        result == verifyDocumentSignature(signature, document)
                    IN IF result.threw
                       THEN resp' = Response("verifySignature", 500,
                                        "Failed to verify signature",
                                        result.reason)
                       ELSE resp' =
                                [Response("verifySignature", 200,
                                     "Signature verification completed", "")
                                 EXCEPT !.body = Some(result)]
               ELSE resp' = Response("verifySignature", 400,
                                "No signature data provided or found", "")
    /\ UNCHANGED <<documentStore, multiSigStore, uuid, cancelled, now,
                         verificationStore, keyStore, requests, signatureStore>>

(* POST /api/verification/document/:documentId *)
verifyDocumentById(documentId) ==
    IF documentId \notin DOMAIN documentStore
       THEN Response("verifyDocument", 404, "Document not found", "")
       ELSE LET document == documentStore[documentId]
                sessionId == document.multiSigSessionId
            IN IF document.status # "signed"
               THEN Response("verifyDocument", 400,
                                "Document is not signed", "")
               ELSE IF sessionId # NoSession
               THEN IF sessionId \notin DOMAIN multiSigStore
                    THEN Response("verifyDocument", 404,
                                     "Multi-signature session not found", "")
                    ELSE [Response("verifyDocument", 200,
                                  "Document verification completed", "")
                              EXCEPT !.body =
                                  Some(verifyMultiSignature(
                                           multiSigStore[sessionId],
                                           document))]
               ELSE IF IsDefined(document.signature)
               THEN LET result == verifyDocumentSignature(
                                      document.signature[1], document)
                    IN IF result.threw
                       THEN Response("verifyDocument", 500,
                                        "Failed to verify document",
                                        result.reason)
                       ELSE [Response("verifyDocument", 200,
                                     "Document verification completed", "")
                                 EXCEPT !.body = Some(result)]
               ELSE Response("verifyDocument", 400,
                                "No signature found for document", "")

VerifyDocument(documentId) ==
    /\ resp' = verifyDocumentById(documentId)
    /\ UNCHANGED <<documentStore, multiSigStore, uuid, cancelled, now,
                   verificationStore, keyStore, requests, signatureStore>>

(* GET /api/documents/:id/qr-code.  The type, issuer, recipient and issue   *)
(* date of a document are those of DocumentMetadata.                        *)
documentMetadataOf(document) ==
    [DocumentMetadata(document.title) EXCEPT !.id = document.id]

DocumentQR(id) ==
    IF id \notin DOMAIN documentStore
    THEN /\ resp' = Response("documentQR", 404, "Document not found", "")
         /\ UNCHANGED <<documentStore, multiSigStore, uuid, cancelled, now,
                        verificationStore, keyStore, requests, signatureStore>>
    ELSE IF documentStore[id].status # "signed"
    THEN /\ resp' = Response("documentQR", 400,
                        "Document must be signed before generating QR code",
                        "")
         /\ UNCHANGED <<documentStore, multiSigStore, uuid, cancelled, now,
                        verificationStore, keyStore, requests, signatureStore>>
    ELSE LET document == documentStore[id]
             sessionId == document.multiSigSessionId
             created ==
                 IF sessionId # NoSession
                 THEN IF sessionId \in DOMAIN multiSigStore
                      THEN createAggregatedSignature(multiSigStore[sessionId])
                      ELSE [ok |-> TRUE, error |-> "",
                            aggregate |-> Undefined]
                 ELSE [ok |-> TRUE, error |-> "",
                       aggregate |-> document.signature]
         IN IF ~created.ok
            THEN /\ resp' = Response("documentQR", 500,
                                "Failed to generate QR code", created.error)
                 /\ UNCHANGED <<documentStore, multiSigStore, uuid, cancelled,
                                now, verificationStore, keyStore, requests,
                                signatureStore>>
            ELSE IF ~IsDefined(created.aggregate)
            THEN /\ resp' = Response("documentQR", 400,
                                "No signature data found", "")
                 /\ UNCHANGED <<documentStore, multiSigStore, uuid, cancelled,
                                now, verificationStore, keyStore, requests,
                                signatureStore>>
            ELSE LET qr == generateDocumentQR(created.aggregate[1],
                               documentMetadataOf(document), uuid + 1, now)
                 IN /\ IsDefined(qr.stored) => uuid < MaxUuids
                    /\ uuid' = IF IsDefined(qr.stored) THEN uuid + 1 ELSE uuid
                    /\ verificationStore' =
                           IF IsDefined(qr.stored)
                           THEN storeVerificationData(verificationStore,
                                    qr.stored[1], qr.payload, now)
                           ELSE verificationStore
                    /\ resp' = [Response("documentQR", 200,
                                    "QR code generated successfully", "")
                                EXCEPT !.body =
                                    Some([qrData |-> qr.qrData,
                                          compressed |-> qr.compressed,
                                          size |-> qr.size])]
                    /\ UNCHANGED <<documentStore, multiSigStore, cancelled,
                                   now, keyStore, requests, signatureStore>>

(* POST /api/verification/qr.  The signature object rebuilt from a payload  *)
(* has no metadata; the temporary session takes its threshold from          *)
(* payload.signature.threshold, and a count compared with an undefined      *)
(* threshold is never enough.                                               *)
signatureOfPayload(payload) ==
    [documentId |-> payload.documentId,
     documentHash |-> payload.documentHash,
     signature |-> payload.signature.data,
     signer |-> [publicKey |-> payload.signature.signers[1].publicKey[1]]]

verifyPayloadSignature(payload, document) ==
    IF /\ hashDocument(HashInput(document)) = payload.documentHash
       /\ ~IsDefined(payload.signature.signers[1].publicKey)
    THEN [threw |-> TRUE, valid |-> FALSE,
          reason |-> "Failed to verify document signature",
          documentHashMatch |-> TRUE, signatureValid |-> FALSE]
    ELSE verifyDocumentSignature(signatureOfPayload(payload), document)

verifyTemporarySession(payload, document) ==
    LET threshold == Field(payload.signature, "threshold")
        tempSession ==
            [documentId |-> payload.documentId,
             documentHash |-> payload.documentHash,
             threshold |-> IF IsDefined(threshold) THEN threshold[1] ELSE 0,
             signatures |->
                 [i \in 1..Len(payload.signature.data) |->
                     [signature |-> payload.signature.data[i].signature,
                      signer |-> payload.signature.data[i].signer,
                      signedAt |-> payload.signature.data[i].signedAt,
                      documentHash |-> payload.documentHash]],
             status |-> "completed"]
        result == verifyMultiSignature(tempSession, document)
    IN IF IsDefined(threshold) \/ ~result.documentHashMatch
       THEN result
       ELSE [result EXCEPT !.valid = FALSE,
                           !.reason = "Insufficient valid signatures"]

QRVerified(result) ==
    [Response("verifyQR", 200, "Document verification completed", "")
     EXCEPT !.body = Some(result)]

QRSingleVerified(result) ==
    IF result.threw
    THEN Response("verifyQR", 500, "Failed to verify QR code", result.reason)
    ELSE QRVerified(result)

verifyQR(qrData) ==
    IF ~IsDefined(qrData)
    THEN [resp |-> Response("verifyQR", 400,
                       "Missing required field: qrData", ""),
          store |-> verificationStore]
    ELSE LET parsedData == parseQRData(qrData[1])
         IN IF ~parsedData.ok
            THEN [resp |-> Response("verifyQR", 500,
                               "Failed to verify QR code", parsedData.error),
                  store |-> verificationStore]
            ELSE IF parsedData.type = "url_verification"
            THEN LET got ==
                         IF IsDefined(parsedData.verificationId)
                         THEN getStoredVerificationData(verificationStore,
                                  parsedData.verificationId[1], now)
                         ELSE [data |-> Undefined, store |-> verificationStore]
                     storedData == got.data[1]
                     document == documentStore[parsedData.documentId[1]]
                     sessionId == Field(storedData, "sessionId")
                 IN [store |-> got.store,
                     resp |->
                         IF ~IsDefined(got.data)
                         THEN Response("verifyQR", 404,
                                  "Verification data not found or expired", "")
                         ELSE IF \/ ~IsDefined(parsedData.documentId)
                                 \/ parsedData.documentId[1]
                                        \notin DOMAIN documentStore
                         THEN Response("verifyQR", 404,
                                  "Document not found", "")
                         ELSE IF storedData.signature.algorithm
                                     = Some("EdDSA-Multi")
                         THEN IF /\ IsDefined(sessionId)
                                 /\ sessionId[1] \in DOMAIN multiSigStore
                              THEN QRVerified(verifyMultiSignature(
                                       multiSigStore[sessionId[1]], document))
                              ELSE Response("verifyQR", 404,
                                       "Multi-signature session not found", "")
                         ELSE QRSingleVerified(
                                  verifyPayloadSignature(storedData,
                                                         document))]
            ELSE LET payload == parsedData.payload[1]
                 IN [store |-> verificationStore,
                     resp |->
                         IF payload.documentId \notin DOMAIN documentStore
                         THEN Response("verifyQR", 404,
                                  "Document not found", "")
                         ELSE IF payload.signatureType = "multi-signature"
                         THEN QRVerified(verifyTemporarySession(payload,
                                  documentStore[payload.documentId]))
                         ELSE QRSingleVerified(
                                  verifyPayloadSignature(payload,
                                      documentStore[payload.documentId]))]

VerifyQR(qrData) ==
    /\ resp' = verifyQR(qrData).resp
    /\ verificationStore' = verifyQR(qrData).store
    /\ UNCHANGED <<documentStore, multiSigStore, uuid, cancelled, now,
                   keyStore, requests, signatureStore>>

(* The aggregate operation called on a stored session. *)
CreateAggregatedSignature(sessionId) ==
    /\ sessionId \in DOMAIN multiSigStore
    /\ LET created == createAggregatedSignature(multiSigStore[sessionId])
       IN resp' = IF created.ok
                  THEN [Response("createAggregatedSignature", 200, "", "")
                        EXCEPT !.body = created.aggregate]
                  ELSE Response("createAggregatedSignature", 500, "",
                                created.error)
    /\ UNCHANGED <<documentStore, multiSigStore, uuid, cancelled, now,
                   verificationStore, keyStore, requests, signatureStore>>

(* POST /api/keys/generate *)
GenerateKey(signerInfo) ==
    IF ~IsDefined(signerInfo)
    THEN /\ resp' = Response("generateKey", 400,
                        "Missing required fields in signerInfo: role, name",
                        "")
         /\ UNCHANGED <<documentStore, multiSigStore, uuid, cancelled, now,
                        verificationStore, keyStore, requests, signatureStore>>
    ELSE IF signerInfo[1].role \notin ValidRoles
    THEN /\ resp' = Response("generateKey", 400, "Invalid role", "")
         /\ UNCHANGED <<documentStore, multiSigStore, uuid, cancelled, now,
                        verificationStore, keyStore, requests, signatureStore>>
    ELSE LET keyId == uuid + 1
             keyPair == generateSignerKeyPair(signerInfo[1].role,
                                              signerInfo[1].name, keyId)
         IN /\ uuid < MaxUuids
            /\ uuid' = keyId
            /\ keyStore' =
                   Put(keyStore, keyId,
                       [publicKey |-> keyPair.publicKey,
                        privateKey |-> keyPair.privateKey,
                        signer |-> keyPair.signer,
                        metadata |-> keyPair.metadata,
                        createdAt |-> now,
                        status |-> "active",
                        \* members a later revocation adds
                        revokedAt |-> Undefined,
                        revocationReason |-> Undefined])
            /\ resp' = [Response("generateKey", 201,
                            "Key pair generated successfully", "")
                        EXCEPT !.body =
                            Some([keyId |-> keyId,
                                  publicKey |-> keyPair.publicKey,
                                  signer |-> keyPair.signer,
                                  metadata |-> keyPair.metadata])]
            /\ UNCHANGED <<documentStore, multiSigStore, cancelled, now,
                           verificationStore, requests, signatureStore>>

(* GET /api/keys/:keyId *)
GetKey(keyId) ==
    /\ IF keyId \notin DOMAIN keyStore
       THEN resp' = Response("getKey", 404, "Key not found", "")
       ELSE LET keyData == keyStore[keyId]
            IN resp' = [Response("getKey", 200,
                            "Key information retrieved successfully", "")
                        EXCEPT !.body =
                            Some([keyId |-> keyId,
                                  publicKey |-> keyData.publicKey,
                                  signer |-> keyData.signer,
                                  metadata |-> keyData.metadata,
                                  status |-> keyData.status,
                                  createdAt |-> keyData.createdAt])]
    /\ UNCHANGED <<documentStore, multiSigStore, uuid, cancelled, now,
                   verificationStore, keyStore, requests, signatureStore>>

(* POST /api/keys/:keyId/revoke *)
isRevokedNever(keyData) == FALSE

isRevoked(keyData) == keyData.status = "revoked"

RevokeKey(keyId, reason) ==
    IF keyId \notin DOMAIN keyStore
    THEN /\ resp' = Response("revokeKey", 404, "Key not found", "")
         /\ UNCHANGED <<documentStore, multiSigStore, uuid, cancelled, now,
                        verificationStore, keyStore, requests, signatureStore>>
    ELSE IF isRevoked(keyStore[keyId])
    THEN /\ resp' = Response("revokeKey", 400, "Key is already revoked", "")
         /\ UNCHANGED <<documentStore, multiSigStore, uuid, cancelled, now,
                        verificationStore, keyStore, requests, signatureStore>>
    ELSE LET revocationReason == IF IsDefined(reason) THEN reason[1]
                                 ELSE "No reason provided"
         IN /\ keyStore' = [keyStore EXCEPT
                               ![keyId].status = "revoked",
                               ![keyId].revokedAt = Some(now),
                               ![keyId].revocationReason =
                                   Some(revocationReason)]
            /\ resp' = [Response("revokeKey", 200,
                            "Key revoked successfully", "")
                        EXCEPT !.body = Some([keyId |-> keyId,
                                              status |-> "revoked",
                                              revokedAt |-> now,
                                              reason |-> revocationReason])]
            /\ UNCHANGED <<documentStore, multiSigStore, uuid, cancelled, now,
                           verificationStore, requests, signatureStore>>

(* GET /api/keys/:keyId/private.  The handler reads req.headers.authToken;  *)
(* the names in req.headers are lower-cased.                                *)
GetPrivateKey(keyId, headers) ==
    /\ LET authToken == Field(headers, "authToken")
       IN IF ~IsDefined(authToken)
          THEN resp' = Response("getPrivateKey", 401,
                           "Authentication required to access private key",
                           "")
          ELSE IF keyId \notin DOMAIN keyStore
          THEN resp' = Response("getPrivateKey", 404, "Key not found", "")
          ELSE IF keyStore[keyId].status # "active"
          THEN resp' = Response("getPrivateKey", 400,
                           "Key is not active", "")
          ELSE resp' = [Response("getPrivateKey", 200,
                            "Private key retrieved successfully", "")
                        EXCEPT !.body =
                            Some([keyId |-> keyId,
                                  privateKey |-> keyStore[keyId].privateKey,
                                  publicKey |-> keyStore[keyId].publicKey,
                                  signer |-> keyStore[keyId].signer])]
    /\ UNCHANGED <<documentStore, multiSigStore, uuid, cancelled, now,
                   verificationStore, keyStore, requests, signatureStore>>

(* A direct call of EdDSAService.sign; the response records the call and   *)
(* what it returned or that it threw.                                       *)
Sign(message, privateKey) ==
    /\ resp' = IF signThrows(privateKey)
               THEN [Response("sign", 500, "", "Failed to create signature")
                     EXCEPT !.body = Some([message |-> message,
                                           privateKey |-> privateKey])]
               ELSE [Response("sign", 200, "", "")
                     EXCEPT !.body =
                         Some([message |-> message,
                               privateKey |-> privateKey,
                               signature |-> sign(message, privateKey)])]
    /\ UNCHANGED <<documentStore, multiSigStore, uuid, cancelled, now,
                   verificationStore, keyStore, requests, signatureStore>>

(* A direct call of EdDSAService.verify.  Buffer.from throws on a missing  *)
(* argument and nacl on a wrong length; verify rethrows either as 'Failed   *)
(* to verify signature'.                                                    *)
Verify(signature, message, publicKey) ==
    /\ LET call == [signature |-> signature, message |-> message,
                    publicKey |-> publicKey, value |-> FALSE]
       IN resp' =
              IF \/ ~IsDefined(signature)
                 \/ ~IsDefined(publicKey)
                 \/ verifyThrows(signature[1], publicKey[1])
              THEN [Response("verify", 500, "", "Failed to verify signature")
                    EXCEPT !.body = Some(call)]
              ELSE [Response("verify", 200, "", "")
                    EXCEPT !.body =
                        Some([call EXCEPT !.value =
                                 verify(signature[1], message,
                                        publicKey[1])])]
    /\ UNCHANGED <<documentStore, multiSigStore, uuid, cancelled, now,
                   verificationStore, keyStore, requests, signatureStore>>

(* The QR encode operation. *)
GenerateDocumentQR(signatureData, documentMetadata) ==
    LET qr == generateDocumentQR(signatureData, documentMetadata,
                                 uuid + 1, now)
    IN /\ IsDefined(qr.stored) => uuid < MaxUuids
       /\ uuid' = IF IsDefined(qr.stored) THEN uuid + 1 ELSE uuid
       /\ verificationStore' =
              IF IsDefined(qr.stored)
              THEN storeVerificationData(verificationStore, qr.stored[1],
                                         qr.payload, now)
              ELSE verificationStore
       /\ resp' = [Response("generateDocumentQR", 200, "", "")
                   EXCEPT !.body =
                       Some([qrData |-> qr.qrData, payload |-> qr.payload,
                             size |-> qr.size,
                             compressed |-> qr.compressed])]
       /\ UNCHANGED <<documentStore, multiSigStore, cancelled, now, keyStore, requests, signatureStore>>

(* validateQRData(qrData): a member counts as missing when it is absent;   *)
(* reading the type of JSON null throws, which the catch reports like       *)
(* invalid JSON.                                                            *)
missingFields(parsed, requiredFields) ==
    SelectSeq(requiredFields, LAMBDA field : ~IsDefined(Field(parsed, field)))

validateQRData(qrData) ==
    IF qrData.kind # "object"
    THEN [valid |-> FALSE, errors |-> <<"Invalid JSON format">>,
          type |-> Some("unknown")]
    ELSE LET parsed == qrData.json
             type == Field(parsed, "type")
             e1 == IF type = Some("document_verification")
                   THEN missingFields(parsed,
                            <<"documentId", "documentHash", "signature">>)
                   ELSE <<>>
             e2 == IF /\ type = Some("document_verification")
                      /\ "signature" \in DOMAIN parsed
                      /\ ~IsDefined(parsed.signature.algorithm)
                   THEN <<"algorithm">> ELSE <<>>
             e3 == IF type = Some("verification_url")
                   THEN missingFields(parsed,
                            <<"verificationId", "url", "documentId">>)
                   ELSE <<>>
             errors == e1 \o e2 \o e3
         IN [valid |-> errors = <<>>, errors |-> errors, type |-> type]

ValidateQRData(qrData) ==
    /\ resp' = LET validation == validateQRData(qrData)
               IN [Response("validateQRData", 200, "", "")
                   EXCEPT !.errors = validation.errors,
                          !.body = Some([valid |-> validation.valid,
                                         type |-> validation.type])]
    /\ UNCHANGED <<documentStore, multiSigStore, uuid, cancelled, now,
                   verificationStore, keyStore, requests, signatureStore>>

(* The QR decode operation. *)
ParseQRData(qrData) ==
    /\ LET parsed == parseQRData(qrData)
       IN resp' = IF parsed.ok
                  THEN [Response("parseQRData", 200, "", "")
                        EXCEPT !.body = Some(parsed)]
                  ELSE Response("parseQRData", 500, "", parsed.error)
    /\ UNCHANGED <<documentStore, multiSigStore, uuid, cancelled, now,
                   verificationStore, keyStore, requests, signatureStore>>

(* Retrieval of the payload stored for a token. *)
GetStoredVerificationData(verificationId) ==
    /\ LET got == getStoredVerificationData(verificationStore,
                                            verificationId, now)
       IN /\ verificationStore' = got.store
          /\ resp' = IF IsDefined(got.data)
                     THEN [Response("getStoredVerificationData", 200, "", "")
                           EXCEPT !.body = got.data]
                     ELSE Response("getStoredVerificationData", 404, "", "")
    /\ UNCHANGED <<documentStore, multiSigStore, uuid, cancelled, now, keyStore, requests, signatureStore>>

(* Time passes by a day, a session lifetime or a payload lifetime. *)
Wait(days) ==
    /\ now + days <= MaxClock
    /\ now' = now + days
    /\ UNCHANGED <<documentStore, multiSigStore, uuid, cancelled,
                   verificationStore, keyStore, requests, resp, signatureStore>>

(* Time passes: the clock moves on by one session lifetime. *)
Tick ==
    /\ now + SESSION_TTL_DAYS <= MaxTime
    /\ now' = now + SESSION_TTL_DAYS
    /\ UNCHANGED <<documentStore, multiSigStore, uuid, cancelled,
                 verificationStore, keyStore, resp, requests, signatureStore>>

----------------------------------------------------------------------------
(* The session workflow *)

Init ==
    /\ documentStore = EmptyStore
    /\ multiSigStore = EmptyStore
    /\ uuid = 0
    /\ cancelled = {}
    /\ now = 0
    /\ verificationStore = EmptyStore
    /\ keyStore = EmptyStore
    /\ requests = <<>>
    /\ signatureStore = EmptyStore
    /\ resp = NoResponse

Next ==
    \/ \E title \in Titles, content \in Contents :
           CreateDocument(title, content)
    \/ \E id \in Ids, title \in NewTitles : UpdateDocument(id, title, Undefined)
    \/ \E id \in Ids : DeleteDocument(id)
    \/ \E id \in Ids, signers \in SignerLists, threshold \in Thresholds :
           PrepareSigning(id, signers, threshold)
    \/ \E sessionId \in Ids, role \in Roles, key \in KeyInputs :
           AddSignature(sessionId, role, key)
    \/ \E sessionId \in Ids : GetSession(sessionId)
    \/ \E sessionId \in Ids : CancelSession(sessionId)
    \/ Tick

Spec == Init /\ [][Next]_vars

(* Session configuration: prepare-signing requests of every shape. *)
NextConfig ==
    \/ \E title \in Titles, content \in Contents :
           CreateDocument(title, content)
    \/ \E id \in Ids, signers \in ConfigSignerLists,
          threshold \in ConfigThresholds :
           PrepareSigning(id, signers, threshold)

SpecConfig == Init /\ [][NextConfig]_vars

(* Aggregation: sessions are prepared and signed, time passes, and the     *)
(* aggregate operation is called on them.                                   *)
NextAggregate ==
    \/ \E title \in Titles, content \in Contents :
           CreateDocument(title, content)
    \/ \E id \in Ids, signers \in SignerLists, threshold \in Thresholds :
           PrepareSigning(id, signers, threshold)
    \/ \E sessionId \in Ids, role \in Roles, key \in KeyInputs :
           AddSignature(sessionId, role, key)
    \/ \E sessionId \in Ids : CreateAggregatedSignature(sessionId)
    \/ Tick

SpecAggregate == Init /\ [][NextAggregate]_vars

(* The verification store over time: payloads of completed sessions too   *)
(* large to embed are stored, looked up and left to expire.                 *)
RetentionRequests ==
    {[signatureData |-> aggregatedSignature(CompletedSession(n, LongName)),
      documentMetadata |-> DocumentMetadata("t1")] : n \in {MaxQRSigners}}

NextRetention ==
    \/ \E request \in RetentionRequests :
           GenerateDocumentQR(request.signatureData,
                              request.documentMetadata)
    \/ \E verificationId \in Ids : GetStoredVerificationData(verificationId)
    \/ \E days \in {1, SESSION_TTL_DAYS, VERIFICATION_TTL_DAYS} : Wait(days)

SpecRetention == Init /\ [][NextRetention]_vars

(* The life of a document: every request that writes a document. *)
NextDocument ==
    \/ \E title \in Titles, content \in Contents :
           CreateDocument(title, content)
    \/ \E id \in Ids, title \in NewTitles : UpdateDocument(id, title, Undefined)
    \/ \E id \in Ids, file \in Files : UpdateDocument(id, Undefined, file)
    \/ \E id \in Ids : DeleteDocument(id)
    \/ \E id \in Ids, signers \in SignerLists, threshold \in Thresholds :
           PrepareSigning(id, signers, threshold)
    \/ \E documentId \in Ids, key \in KeyInputs : SignSingle(documentId, key)
    \/ \E sessionId \in Ids, role \in Roles, key \in KeyInputs :
           AddSignature(sessionId, role, key)
    \/ \E sessionId \in Ids : CancelSession(sessionId)

SpecDocument == Init /\ [][NextDocument]_vars

(* Signing and then verifying, with no update in between; a document may   *)
(* be created without content, and single signing is asked for documents    *)
(* that are not signed at the moment.                                       *)
AnyContents == Contents \cup {""}

SignedIds ==
    {id \in DOMAIN documentStore : documentStore[id].status = "signed"}

NextSigned ==
    \/ \E title \in Titles, content \in AnyContents :
           CreateDocument(title, content)
    \/ \E id \in Ids, signers \in SignerLists, threshold \in Thresholds :
           PrepareSigning(id, signers, threshold)
    \/ \E documentId \in Ids \ SignedIds, key \in KeyInputs :
           SignSingle(documentId, key)
    \/ \E sessionId \in Ids, role \in Roles, key \in KeyInputs :
           AddSignature(sessionId, role, key)
    \/ \E documentId \in Ids : VerifyDocument(documentId)

SpecSigned == Init /\ [][NextSigned]_vars

(* Verification through the QR of a signed document and by its id.  A      *)
(* title may be long enough for the QR to take the reference variant.       *)
AnyTitles == Titles \cup {Some(TitleOfLength(QR_SIZE_LIMIT))}

LastDocumentQR ==
    IF resp.op = "documentQR" /\ resp.code = 200
    THEN {Some(resp.body[1].qrData)} ELSE {}

NextQRVerify ==
    \/ \E title \in AnyTitles, content \in Contents :
           CreateDocument(title, content)
    \/ \E id \in Ids, signers \in SignerLists, threshold \in Thresholds :
           PrepareSigning(id, signers, threshold)
    \/ \E documentId \in Ids, key \in KeyInputs : SignSingle(documentId, key)
    \/ \E sessionId \in Ids, role \in Roles, key \in KeyInputs :
           AddSignature(sessionId, role, key)
    \/ \E id \in Ids : DocumentQR(id)
    \/ \E qrData \in LastDocumentQR \cup {Undefined, Some(NotJson)} :
           VerifyQR(qrData)
    \/ \E documentId \in Ids : VerifyDocument(documentId)

SpecQRVerify == Init /\ [][NextQRVerify]_vars

(* Every operation that is handed a stored session. *)
SessionThresholds == Thresholds \cup {Some(3)}

NextSession ==
    \/ \E title \in Titles, content \in Contents :
           CreateDocument(title, content)
    \/ \E id \in Ids, signers \in SignerLists,
          threshold \in SessionThresholds :
           PrepareSigning(id, signers, threshold)
    \/ \E sessionId \in Ids, role \in Roles, key \in KeyInputs :
           AddSignature(sessionId, role, key)
    \/ \E sessionId \in Ids : GetSession(sessionId)
    \/ \E sessionId \in Ids : CreateAggregatedSignature(sessionId)
    \/ \E documentId \in Ids : VerifyDocument(documentId)
    \/ \E sessionId \in Ids : CancelSession(sessionId)
    \/ Tick

SpecSession == Init /\ [][NextSession]_vars

(* Add-signature requests in flight together. *)
ConcurrentSignerLists ==
    {Some(<<"dosen", "kaprodi">>), Some(<<"dosen", "kaprodi", "dekan">>)}

ConcurrentThresholds == {Undefined, Some(3)}

ConcurrentRoles == {"dosen", "kaprodi", "dekan"}

NextConcurrent ==
    \/ \E title \in Titles, content \in Contents :
           CreateDocument(title, content)
    \/ \E id \in Ids, signers \in ConcurrentSignerLists,
          threshold \in ConcurrentThresholds :
           PrepareSigning(id, signers, threshold)
    \/ \E sessionId \in Ids, role \in ConcurrentRoles, key \in KeyInputs :
           ReceiveAddSignature(sessionId, role, key)
    \/ \E i \in 1..MaxRequests : HandleAddSignature(i)

SpecConcurrent == Init /\ [][NextConcurrent]_vars

(* Key management. *)
NextKeys ==
    \/ \E signerInfo \in KeySignerInfos : GenerateKey(signerInfo)
    \/ \E keyId \in Ids : GetKey(keyId)
    \/ \E keyId \in Ids, reason \in RevocationReasons :
           RevokeKey(keyId, reason)
    \/ \E keyId \in Ids, headers \in RequestHeaders :
           GetPrivateKey(keyId, headers)

SpecKeys == Init /\ [][NextKeys]_vars

(* Key management over time. *)
NextRevocation ==
    \/ \E signerInfo \in KeySignerInfos : GenerateKey(signerInfo)
    \/ \E keyId \in Ids : GetKey(keyId)
    \/ \E keyId \in Ids, reason \in RevocationReasons :
           RevokeKey(keyId, reason)
    \/ \E keyId \in Ids, headers \in RequestHeaders :
           GetPrivateKey(keyId, headers)
    \/ Tick

SpecRevocation == Init /\ [][NextRevocation]_vars

(* The signature engine called directly. *)
NextEdDSA ==
    \/ \E message \in Messages, privateKey \in SigningKeys :
           Sign(message, privateKey)
    \/ \E signature \in SignatureArguments, message \in Messages,
          publicKey \in PublicKeyArguments :
           Verify(signature, message, publicKey)

SpecEdDSA == Init /\ [][NextEdDSA]_vars

(* QR encoding and decoding: artifacts are encoded, texts (the QR just     *)
(* produced among them) are decoded, and stored payloads are retrieved.     *)
LastQR ==
    IF resp.op = "generateDocumentQR" THEN {resp.body[1].qrData} ELSE {}

NextQR ==
    \/ \E request \in QRRequests :
           GenerateDocumentQR(request.signatureData,
                              request.documentMetadata)
    \/ \E qrData \in QRInputs \cup LastQR : ParseQRData(qrData)
    \/ \E verificationId \in Ids : GetStoredVerificationData(verificationId)

SpecQR == Init /\ [][NextQR]_vars

(* QR data produced by the encoder and handed to the structural check. *)
NextQRValidate ==
    \/ \E request \in QRRequests :
           GenerateDocumentQR(request.signatureData,
                              request.documentMetadata)
    \/ \E qrData \in QRInputs \cup LastQR : ValidateQRData(qrData)

SpecQRValidate == Init /\ [][NextQRValidate]_vars

(* Verification: documents are created and edited, and clients post        *)
(* signature data to the verify route.                                      *)
NextVerify ==
    \/ \E title \in Titles, content \in Contents :
           CreateDocument(title, content)
    \/ \E id \in Ids, file \in Files : UpdateDocument(id, Undefined, file)
    \/ \E id \in Ids, signatureData \in SignatureData :
           VerifySignature(id, signatureData)

SpecVerify == Init /\ [][NextVerify]_vars

----------------------------------------------------------------------------
(* Properties of the session workflow *)

Sessions == {multiSigStore[id] : id \in DOMAIN multiSigStore}

SignedRoles(session) ==
    {session.signatures[i].signer.role : i \in 1..Len(session.signatures)}

RequiredRoles(session) ==
    {session.requiredSigners[i].role : i \in 1..Len(session.requiredSigners)}

(* The session-closed failures of addSignature. *)
SessionClosed == {ErrCompleted, ErrExpired}

PastExpiry(session) == now > session.expiresAt

IsOpen(session) == session.status # "completed" /\ ~PastExpiry(session)

(* The failure of a call on a closed session, else the given one. *)
ClosedOr(session, error) ==
    IF session.status = "completed" THEN ErrCompleted
    ELSE IF PastExpiry(session) THEN ErrExpired
    ELSE error

(* The step answers an add-signature request with a failure. *)
RefusedAddSignature == resp'.op = "addSignature" /\ resp'.code # 200

(* The step leaves both stores as they were. *)
StoresUnchanged ==
    multiSigStore' = multiSigStore /\ documentStore' = documentStore

(* C1: in every reachable state of every session, no two entries of        *)
(* session.signatures carry the same signer role.                           *)
C1_OneSignaturePerRole ==
    \A session \in Sessions :
        \A i, j \in 1..Len(session.signatures) :
            i # j => session.signatures[i].signer.role
                         # session.signatures[j].signer.role

(* A session holds two signatures and a further add-signature request for  *)
(* it has just been turned down.                                            *)
C1_Witness ==
    /\ \E session \in Sessions : Len(session.signatures) = 2
    /\ resp.op = "addSignature" /\ resp.code = 500

(* C2: in every state the session store holds, a session's status is       *)
(* 'completed' exactly when it has at least threshold signatures.           *)
C2_CompletedIffThreshold ==
    \A session \in Sessions :
        /\ session.status \in {"pending", "completed"}
        /\ session.status = "completed"
               <=> Len(session.signatures) >= session.threshold

(* An add-signature request has just completed a session. *)
C2_Witness ==
    /\ resp.op = "addSignature" /\ resp.code = 200
    /\ \E session \in Sessions :
           /\ session.status = "completed"
           /\ Len(session.signatures) >= session.threshold

(* C3: a session that is 'completed' stays in the store, stays 'completed' *)
(* and keeps its signatures, whatever request comes next.                   *)
C3_CompletedIsFinal ==
    [][\A id \in DOMAIN multiSigStore :
           multiSigStore[id].status = "completed"
               => /\ id \in DOMAIN multiSigStore'
                  /\ multiSigStore'[id].status = "completed"
                  /\ multiSigStore'[id].signatures
                         = multiSigStore[id].signatures]_vars

(* A cancel request for a completed session has just been refused. *)
C3_Witness ==
    /\ resp.op = "cancelSession" /\ resp.code = 400
    /\ \E session \in Sessions : session.status = "completed"

(* C4: a session with threshold 2 and three required signers is pending,   *)
(* with completedAt unset, before and after its 1st accepted signature, is  *)
(* completed with completedAt set by its 2nd, and never holds a 3rd.        *)
C4_CompletesOnSecond ==
    \A session \in Sessions :
        (session.threshold = 2 /\ Len(session.requiredSigners) = 3)
            => /\ Len(session.signatures) <= 2
               /\ Len(session.signatures) < 2
                      => /\ session.status = "pending"
                         /\ session.completedAt = Undefined
               /\ Len(session.signatures) = 2
                      => /\ session.status = "completed"
                         /\ session.completedAt
                                = Some(session.signatures[2].signedAt)

(* Kaprodi and then dekan have signed a 2-of-3 session, which completed. *)
C4_Witness ==
    \E session \in Sessions :
        /\ session.threshold = 2 /\ Len(session.requiredSigners) = 3
        /\ Len(session.signatures) = 2
        /\ session.signatures[1].signer.role = "kaprodi"
        /\ session.signatures[2].signer.role = "dekan"
        /\ session.status = "completed"

C6_AsClaimed ==
    [][\A id \in Ids, role \in Roles, key \in KeyInputs :
           (/\ id \in DOMAIN multiSigStore
            /\ role \in SignedRoles(multiSigStore[id])
            /\ AddSignature(id, role, key))
               => /\ resp'.error = ErrAlreadySigned
                  /\ StoresUnchanged]_vars

(* C6, amended: an add-signature call for a role that has signed returns  *)
(* the session as it was; it fails with DuplicateSignature while the        *)
(* session is pending and not expired, and with the session-closed failure  *)
(* once the session is completed or expired; and no refused request changes *)
(* a store.                                                                 *)
C6_DuplicateRejected ==
    /\ [](\A id \in DOMAIN multiSigStore :
              \A role \in SignedRoles(multiSigStore[id]), key \in PrivateKeys :
                  LET added == addSignature(multiSigStore[id], role, key,
                                            SignerInfo, now)
                  IN /\ ~added.ok
                     /\ added.session = multiSigStore[id]
                     /\ added.error = ClosedOr(multiSigStore[id],
                                               ErrAlreadySigned))
    /\ [][RefusedAddSignature => StoresUnchanged]_vars

(* A role that has signed a still pending session has just been turned     *)
(* down as a duplicate.                                                     *)
C6_Witness ==
    /\ resp.op = "addSignature" /\ resp.error = ErrAlreadySigned
    /\ \E session \in Sessions :
           /\ IsOpen(session)
           /\ Len(session.signatures) = 1

(* C7 as claimed: an add-signature request with a role that is not among   *)
(* the required signers fails with the unknown-signer failure and changes   *)
(* nothing.                                                                 *)
C7_AsClaimed ==
    [][\A id \in Ids, role \in Roles, key \in KeyInputs :
           (/\ id \in DOMAIN multiSigStore
            /\ role \notin RequiredRoles(multiSigStore[id])
            /\ AddSignature(id, role, key))
               => /\ resp'.error = ErrNotRequired
                  /\ StoresUnchanged]_vars

(* Every stored signature has a role of requiredSigners. *)
SignaturesAreRequired ==
    \A session \in Sessions : SignedRoles(session) \subseteq RequiredRoles(session)

(* C7, amended: an add-signature call with a role that is not among the   *)
(* required signers returns the session as it was; on a pending, unexpired  *)
(* session it fails with the unknown-signer failure (on a completed or      *)
(* expired one with the session-closed failure); no refused request changes *)
(* a store; so every stored signature has a role of requiredSigners.        *)
C7_UnknownSignerRejected ==
    /\ []SignaturesAreRequired
    /\ [](\A id \in DOMAIN multiSigStore :
              \A role \in Roles \ RequiredRoles(multiSigStore[id]),
                 key \in PrivateKeys :
                  LET added == addSignature(multiSigStore[id], role, key,
                                            SignerInfo, now)
                  IN /\ ~added.ok
                     /\ added.session = multiSigStore[id]
                     /\ added.error = ClosedOr(multiSigStore[id],
                                               ErrNotRequired))
    /\ [][RefusedAddSignature => StoresUnchanged]_vars

(* A role outside requiredSigners has just been turned down on a session   *)
(* that already holds a signature and is still open.                        *)
C7_Witness ==
    /\ resp.op = "addSignature" /\ resp.error = ErrNotRequired
    /\ \E session \in Sessions :
           IsOpen(session) /\ Len(session.signatures) = 1

----------------------------------------------------------------------------
(* Session configuration *)

(* C8 (as claimed): every session created by prepare-signing has            *)
(* 2 <= threshold <= |requiredSigners| <= MAX_SIGNERS and pairwise distinct  *)
(* roles.  A list of one signer with the threshold omitted passes            *)
(* validateMultiSigConfig and is stored with threshold 1.                    *)
C8_AsClaimed ==
    \A id \in DOMAIN multiSigStore :
        LET session == multiSigStore[id]
            n == Len(session.requiredSigners)
        IN /\ MIN_SIGNERS <= session.threshold
           /\ session.threshold <= n
           /\ n <= MAX_SIGNERS
           /\ \A i, j \in 1..n :
                  session.requiredSigners[i].role
                      = session.requiredSigners[j].role => i = j

(* The rules a prepare-signing request violates. *)
ViolatedRules(signers, threshold) ==
    {rule \in {"signers", "maximum", "minimum", "exceeds", "duplicate"} :
        \/ rule = "signers"
              /\ (~IsDefined(signers) \/ Len(signers[1]) = 0)
        \/ rule = "maximum"
              /\ IsDefined(signers) /\ Len(signers[1]) > MAX_SIGNERS
        \/ rule = "minimum"
              /\ IsDefined(threshold) /\ threshold[1] < MIN_SIGNERS
        \/ rule = "exceeds"
              /\ IsDefined(threshold) /\ IsDefined(signers)
              /\ threshold[1] > Len(signers[1])
        \/ rule = "duplicate"
              /\ IsDefined(signers)
              /\ \E i, j \in 1..Len(signers[1]) :
                     i # j /\ signers[1][i] = signers[1][j]}

(* C9 (as claimed): a prepare-signing request that violates several rules   *)
(* at once is answered with the invalid-configuration result whose error    *)
(* list has one entry per violated rule, and nothing is stored.  A request   *)
(* whose signers are not a list makes validateMultiSigConfig throw, and the  *)
(* route answers 500 without an error list.                                  *)
C9_AsClaimed ==
    [][\A id \in DOMAIN documentStore, signers \in ConfigSignerLists,
         threshold \in ConfigThresholds :
           (/\ Cardinality(ViolatedRules(signers, threshold)) >= 2
            /\ PrepareSigning(id, signers, threshold))
               => /\ resp'.code = 400
                  /\ Len(resp'.errors)
                         = Cardinality(ViolatedRules(signers, threshold))
                  /\ multiSigStore' = multiSigStore
                  /\ documentStore' = documentStore]_vars

----------------------------------------------------------------------------
(* Multi-signature verification *)

(* The number of signatures of the session that verify on their own         *)
(* against the session's document hash.                                     *)
VerifyingSignatures(session) ==
    Cardinality({i \in 1..Len(session.signatures) :
        LET signature == session.signatures[i]
        IN /\ ~verifyThrows(signature.signature, signature.signer.publicKey)
           /\ verify(signature.signature, session.documentHash,
                     signature.signer.publicKey)})

(* C10: verifyMultiSignature(session, document) is valid exactly when the   *)
(* hash recomputed from the document equals session.documentHash and at     *)
(* least session.threshold signatures verify on their own against it; on a  *)
(* hash mismatch the result is invalid, documentHashMatch is false and no    *)
(* signature has been evaluated.                                            *)
C10_ValidIffHashAndThreshold ==
    \A id \in DOMAIN documentStore, session \in ClientSessions :
        LET document == documentStore[id]
            result == verifyMultiSignature(session, document)
            hashMatch ==
                hashDocument(HashInput(document)) = session.documentHash
        IN /\ result.valid <=>
                  (hashMatch
                      /\ VerifyingSignatures(session) >= session.threshold)
           /\ result.documentHashMatch <=> hashMatch
           /\ ~hashMatch => /\ ~result.valid
                            /\ result.signatureResults = <<>>
                            /\ result.validSignatures = Undefined

(* The verify route has answered a multi-signature request as valid: two   *)
(* of three posted signatures verify and the hash matches.                  *)
C10_Witness ==
    /\ resp.op = "verifySignature"
    /\ IsDefined(resp.body)
    /\ "signatureResults" \in DOMAIN resp.body[1]
    /\ resp.body[1].valid
    /\ resp.body[1].documentHashMatch
    /\ resp.body[1].totalSignatures = Some(3)
    /\ resp.body[1].validSignatures = Some(2)

(* Whether one stored signature verifies on its own: verification does not *)
(* raise and answers true.                                                 *)
VerifiesAlone(session, signature) ==
    /\ ~verifyThrows(signature.signature, signature.signer.publicKey)
    /\ verify(signature.signature, session.documentHash,
              signature.signer.publicKey)

(* C11: with a matching document hash, verifyMultiSignature reports one    *)
(* entry per stored signature, in stored order; an entry is valid exactly   *)
(* when its own signature verifies (an invalid signature or one whose       *)
(* verification raises is valid = false for that entry only), and the       *)
(* other signatures are still verified and counted.                         *)
C11_OneResultPerSignature ==
    \A id \in DOMAIN documentStore, session \in ClientSessions :
        LET document == documentStore[id]
            result == verifyMultiSignature(session, document)
            n == Len(session.signatures)
        IN hashDocument(HashInput(document)) = session.documentHash
              => /\ Len(result.signatureResults) = n
                 /\ result.totalSignatures = Some(n)
                 /\ \A i \in 1..n :
                        /\ result.signatureResults[i].signer
                               = session.signatures[i].signer
                        /\ result.signatureResults[i].valid
                               <=> VerifiesAlone(session, session.signatures[i])
                 /\ result.validSignatures =
                        Some(Cardinality({i \in 1..n :
                            VerifiesAlone(session, session.signatures[i])}))

(* The verify route has answered a request whose first signature has a     *)
(* wrong length and whose second is cryptographically invalid: both are     *)
(* reported invalid, and the third is still verified and counted.           *)
C11_Witness ==
    /\ resp.op = "verifySignature"
    /\ IsDefined(resp.body)
    /\ "signatureResults" \in DOMAIN resp.body[1]
    /\ Len(resp.body[1].signatureResults) = 3
    /\ resp.body[1].signatureResults[1].signer.role = "admin"
    /\ ~resp.body[1].signatureResults[1].valid
    /\ resp.body[1].signatureResults[2].signer.role = "dekan"
    /\ ~resp.body[1].signatureResults[2].valid
    /\ resp.body[1].signatureResults[3].valid
    /\ resp.body[1].validSignatures = Some(1)

----------------------------------------------------------------------------
(* Aggregation *)

(* C12: createAggregatedSignature succeeds only for a session whose status *)
(* is 'completed'; in any other status (pending, and the named statuses     *)
(* expired and cancelled) it fails with the not-completed failure and       *)
(* returns no aggregate.  A produced aggregate lists the session's          *)
(* signatures in stored order.                                              *)
C12_AggregateOnlyCompleted ==
    \A stored \in Sessions,
       status \in {"pending", "completed", "expired", "cancelled"} :
        LET session == IF status = "completed" THEN stored
                       ELSE [stored EXCEPT !.status = status]
            created == createAggregatedSignature(session)
        IN IF session.status = "completed"
           THEN /\ created.ok
                /\ IsDefined(created.aggregate)
                /\ Len(created.aggregate[1].signatures)
                       = Len(session.signatures)
                /\ \A i \in 1..Len(session.signatures) :
                       created.aggregate[1].signatures[i].signer.role
                           = session.signatures[i].signer.role
           ELSE /\ ~created.ok
                /\ created.error = ErrNotCompleted
                /\ created.aggregate = Undefined

(* The aggregate operation has been refused for a pending session that     *)
(* already holds a signature.                                               *)
C12_Witness ==
    /\ resp.op = "createAggregatedSignature"
    /\ resp.code = 500
    /\ resp.error = ErrNotCompleted
    /\ resp.body = Undefined
    /\ \E session \in Sessions :
           session.status = "pending" /\ Len(session.signatures) = 1

----------------------------------------------------------------------------
(* QR encoding and decoding *)

(* The number of signatures an encoded payload carries. *)
SignatureCount(payload) ==
    IF payload.signatureType = "single" THEN 1
    ELSE Len(payload.signature.data)

C14_DecodeRecoversVariant ==
    \A request \in QRRequests :
        LET qr == generateDocumentQR(request.signatureData,
                                     request.documentMetadata, uuid + 1, now)
            parsed == parseQRData(qr.qrData)
        IN /\ parsed.ok
           /\ IF qr.compressed
              THEN /\ parsed.type = "url_verification"
                   /\ parsed.verificationId = Some(uuid + 1)
                   /\ parsed.documentId
                          = Some(request.documentMetadata.id)
              ELSE /\ parsed.type = "embedded_verification"
                   /\ parsed.payload = Some(qr.payload)

(* A reference QR that the encoder produced and stored has been decoded. *)
C14_Witness ==
    /\ resp.op = "parseQRData"
    /\ resp.code = 200
    /\ resp.body[1].type = "url_verification"
    /\ IsDefined(resp.body[1].verificationId)
    /\ resp.body[1].verificationId[1] \in DOMAIN verificationStore

(* C15: when the reference variant is produced, the data holds a fresh     *)
(* token, the documentId, the first 16 hex characters of the documentHash   *)
(* and the number of signatures of the artifact, and right afterwards the   *)
(* verification store returns the full payload for that token.              *)
C15_ReferenceData ==
    [][(resp'.op = "generateDocumentQR" /\ resp'.body[1].compressed) =>
         LET qr == resp'.body[1]
             data == qr.qrData.json
         IN /\ data.verificationId \notin DOMAIN verificationStore
            /\ data.verificationId = uuid'
            /\ uuid' = uuid + 1
            /\ data.documentId = qr.payload.documentId
            /\ data.quickVerify.documentHash
                   = substring(qr.payload.documentHash, HASH_PREFIX_LENGTH)
            /\ data.quickVerify.documentHash.length = 16
            /\ data.quickVerify.signatureCount = SignatureCount(qr.payload)
            /\ getStoredVerificationData(verificationStore',
                                         data.verificationId, now').data
                   = Some(qr.payload)]_vars

(* The aggregate of MaxQRSigners signers with long names has been encoded  *)
(* as a reference.                                                          *)
C15_Witness ==
    /\ resp.op = "generateDocumentQR"
    /\ resp.body[1].compressed
    /\ resp.body[1].payload.signatureType = "multi-signature"
    /\ resp.body[1].qrData.json.quickVerify.signatureCount = MaxQRSigners
    /\ resp.body[1].payload.metadata.title = "t1"
    /\ resp.body[1].qrData.json.verificationId \in DOMAIN verificationStore

(* The texts handed to the decoder. *)
DecoderInputs ==
    QRInputs \cup
        {generateDocumentQR(request.signatureData, request.documentMetadata,
                            1, 0).qrData : request \in QRRequests}

(* C16: decoding gives a classified result only for a text that parses to  *)
(* an object tagged 'document_verification' or 'verification_url'; for any  *)
(* other tag (the service's own 'signing_request' and 'verification_report' *)
(* included), for no tag, and for a text that does not parse, it fails      *)
(* with the failure 'Failed to parse QR data'.                              *)
C16_DecodeOnlyKnownTags ==
    /\ \A text \in DecoderInputs :
           LET parsed == parseQRData(text)
               known == /\ text.kind = "object"
                        /\ "type" \in DOMAIN text.json
                        /\ text.json.type \in {"document_verification",
                                                "verification_url"}
           IN /\ parsed.ok <=> known
              /\ ~parsed.ok =>
                     /\ parsed.error \in {ErrUnknownFormat, ErrJsonSyntax,
                                           ErrNotAnObject}
                     /\ parsed.type = ""
                     /\ parsed.payload = Undefined
              /\ (text.kind = "object" /\ ~known)
                     => parsed.error = ErrUnknownFormat
    /\ (resp.op = "parseQRData" /\ resp.code = 200)
           => resp.body[1].type \in {"embedded_verification",
                                      "url_verification"}

(* A text with another tag has been refused. *)
C16_Witness ==
    /\ resp.op = "parseQRData"
    /\ resp.code = 500
    /\ resp.error = ErrUnknownFormat

----------------------------------------------------------------------------
(* The signature engine *)

(* C17: for every valid key pair and all messages m and m2, a signature    *)
(* made over m with the private key verifies against m2 with the public     *)
(* key exactly when m2 = m; and a verify call answered for such a signature *)
(* and key returned exactly that.                                           *)
C17_VerifyIffSameMessage ==
    /\ \A id \in 1..2, m \in Messages, m2 \in Messages :
           LET signature == sign(m, GoodKey(id))
               publicKey == getPublicKeyFromPrivate(GoodKey(id))
           IN /\ ~signThrows(GoodKey(id))
              /\ ~verifyThrows(signature, publicKey)
              /\ verify(signature, m2, publicKey) <=> (m2 = m)
    /\ \A id \in 1..2, m \in Messages :
           (/\ resp.op = "verify"
            /\ resp.body[1].signature = Some(sign(m, GoodKey(id)))
            /\ resp.body[1].publicKey = Some(PublicKey(id)))
               => /\ resp.code = 200
                  /\ resp.body[1].value <=> (resp.body[1].message = m)

(* verify has returned false for a signature of a valid key pair checked   *)
(* against another message than the signed one.                             *)
C17_Witness ==
    /\ resp.op = "verify"
    /\ resp.code = 200
    /\ resp.body[1].signature
           = Some(sign(HashOfContent("c1"), GoodKey(1)))
    /\ resp.body[1].publicKey = Some(PublicKey(1))
    /\ resp.body[1].message = HashOfContent("c2")
    /\ ~resp.body[1].value

(* C18 (as claimed): verify never raises; for a signature that is not 64   *)
(* bytes, a public key that is not 32 bytes, or a missing argument it       *)
(* returns false.  The code rethrows what Buffer.from and nacl throw.       *)
C18_AsClaimed ==
    resp.op = "verify" => (resp.code = 200 /\ resp.error = "")

----------------------------------------------------------------------------
(* Document verification and the document hash *)

(* C19: verifyDocumentSignature tells tampering from an invalid signature. *)
(* When the hash recomputed from the document differs from the recorded     *)
(* one, the result is invalid with documentHashMatch = false and the tamper *)
(* reason, and the signature is not evaluated (a signature of a wrong       *)
(* length does not make it throw); when the hashes match and the signature  *)
(* does not verify, the result is invalid with documentHashMatch = true and *)
(* the invalid-signature reason.                                           *)
C19_TamperIsNotInvalid ==
    \A id \in DOMAIN documentStore, signatureObject \in ClientSingles :
        LET document == documentStore[id]
            result == verifyDocumentSignature(signatureObject, document)
            hashMatch == hashDocument(HashInput(document))
                             = signatureObject.documentHash
            throws == verifyThrows(signatureObject.signature,
                                   signatureObject.signer.publicKey)
            verifies == verify(signatureObject.signature,
                               signatureObject.documentHash,
                               signatureObject.signer.publicKey)
        IN /\ ~hashMatch =>
                  /\ ~result.threw
                  /\ ~result.valid
                  /\ ~result.documentHashMatch
                  /\ ~result.signatureValid
                  /\ result.reason = "Document has been modified"
           /\ (hashMatch /\ ~throws /\ ~verifies) =>
                  /\ ~result.threw
                  /\ ~result.valid
                  /\ result.documentHashMatch
                  /\ result.reason = "Invalid signature"
           /\ (hashMatch /\ ~throws /\ verifies) =>
                  result.valid /\ result.documentHashMatch

(* The verify route has answered a single-signature request whose hash     *)
(* matches and whose signature does not verify.                             *)
C19_Witness ==
    /\ resp.op = "verifySignature"
    /\ resp.code = 200
    /\ "signatureValid" \in DOMAIN resp.body[1]
    /\ ~resp.body[1].valid
    /\ resp.body[1].documentHashMatch
    /\ resp.body[1].reason = "Invalid signature"

(* C20 (as claimed): the hash recorded at signing covers the document's    *)
(* title, so that after a change of the title the verification of the       *)
(* session against the altered document reports a hash mismatch.  The       *)
(* recorded hash is taken over the content alone.                           *)
C20_AsClaimed ==
    [][\A id \in DOMAIN documentStore \cap DOMAIN documentStore',
         session \in Sessions :
           (/\ session.documentId = id
            /\ documentStore'[id].title # documentStore[id].title
            /\ verifyMultiSignature(session, documentStore[id])
                   .documentHashMatch)
               => ~verifyMultiSignature(session, documentStore'[id])
                      .documentHashMatch]_vars

----------------------------------------------------------------------------
(* Stored signatures *)

(* C21: every signature held by a session verifies against the session's   *)
(* documentHash under the public key recorded with it, and that public key  *)
(* is the one derived from the private key that made the signature; a       *)
(* signature that fails the re-verification is not appended.                *)
C21_StoredSignaturesVerify ==
    /\ \A session \in Sessions :
           \A i \in 1..Len(session.signatures) :
               LET stored == session.signatures[i]
               IN /\ ~verifyThrows(stored.signature, stored.signer.publicKey)
                  /\ verify(stored.signature, session.documentHash,
                            stored.signer.publicKey)
                  /\ stored.signer.publicKey
                         = PublicKey(stored.signature.pub)
                  /\ stored.documentHash = session.documentHash
    /\ \A session \in Sessions, role \in Roles, key \in PrivateKeys :
           LET added == addSignature(session, role, key, SignerInfo, now)
           IN (~signThrows(key)
                 /\ ~verify(sign(session.documentHash, key),
                            session.documentHash,
                            getPublicKeyFromPrivate(key)))
                 => ~added.ok /\ added.session = session

(* A signature made with a key whose embedded public key does not belong   *)
(* to it has been refused by a session that holds an accepted signature.    *)
C21_Witness ==
    /\ resp.op = "addSignature"
    /\ resp.code = 500
    /\ resp.error = ErrInvalid
    /\ \E session \in Sessions :
           session.status = "pending" /\ Len(session.signatures) = 1

----------------------------------------------------------------------------
(* Private keys *)

(* C22 (as claimed): no store holds a private key and no response carries  *)
(* one.  The generate route puts the whole key pair, private key included,  *)
(* into the key store.                                                      *)
C22_AsClaimed ==
    /\ \A keyId \in DOMAIN keyStore :
           "privateKey" \notin DOMAIN keyStore[keyId]
    /\ IsDefined(resp.body) => "privateKey" \notin DOMAIN resp.body[1]

----------------------------------------------------------------------------
(* Expiry *)

(* C23: a session expires exactly SESSION_TTL_DAYS after its creation, and *)
(* once the clock is past expiresAt no addSignature call on it succeeds,    *)
(* for any role and key, and no step changes the signatures or the status   *)
(* of the stored session.                                                   *)
C23_ExpiryFreezesSession ==
    /\ [](\A session \in Sessions :
              session.expiresAt = session.createdAt + SESSION_TTL_DAYS)
    /\ [](\A id \in DOMAIN multiSigStore :
              PastExpiry(multiSigStore[id])
                  => \A role \in Roles, key \in PrivateKeys :
                         ~addSignature(multiSigStore[id], role, key,
                                       SignerInfo, now).ok)
    /\ [][\A id \in DOMAIN multiSigStore \cap DOMAIN multiSigStore' :
              PastExpiry(multiSigStore[id])
                  => /\ multiSigStore'[id].signatures =
                            multiSigStore[id].signatures
                     /\ multiSigStore'[id].status = multiSigStore[id].status]_vars

(* A session that collected one signature in time is past its expiry, and  *)
(* a further signature for it has just been refused.                        *)
C23_Witness ==
    /\ resp.op = "addSignature" /\ resp.code = 500
    /\ \E session \in Sessions :
           /\ now > session.createdAt + SESSION_TTL_DAYS
           /\ Len(session.signatures) = 1
           /\ session.status = "pending"

(* C24 (as claimed): a get-session answer computed after the session's     *)
(* expiresAt does not report the status 'pending'.  No code path assigns    *)
(* the status 'expired'; the answer carries the stored status next to       *)
(* isExpired.                                                               *)
C24_AsClaimed ==
    (/\ resp.op = "getSession"
     /\ IsDefined(resp.body)
     /\ resp.body[1].isExpired)
        => resp.body[1].status # "pending"

----------------------------------------------------------------------------
(* Cancellation *)

(* C25 (as claimed): a cancel request for a session that is completed or   *)
(* past its expiry is rejected and changes neither the session store nor    *)
(* the document store.  The route refuses completed sessions only, so an    *)
(* expired session is deleted and its document put back to draft.           *)
C25_AsClaimed ==
    [][\A id \in DOMAIN multiSigStore :
           (/\ ~IsOpen(multiSigStore[id])
            /\ CancelSession(id))
               => /\ resp'.code # 200
                  /\ StoresUnchanged]_vars

----------------------------------------------------------------------------
(* Concurrent add-signature requests *)

Accepted(i) == requests[i].code = 200

(* C26: whatever the order in which the handlers of the add-signature      *)
(* requests in flight run, two requests for the same role of a session are  *)
(* never both accepted, every accepted request's signature is in the stored *)
(* session (which holds one signature per accepted request), and no stored  *)
(* session has reached its threshold and is still pending.                  *)
C26_AddSignatureIsExclusive ==
    /\ \A i, j \in DOMAIN requests :
           (/\ i # j
            /\ requests[i].sessionId = requests[j].sessionId
            /\ requests[i].role = requests[j].role)
               => ~(Accepted(i) /\ Accepted(j))
    /\ \A i \in DOMAIN requests :
           Accepted(i)
               => /\ requests[i].sessionId \in DOMAIN multiSigStore
                  /\ requests[i].role
                         \in SignedRoles(multiSigStore[requests[i].sessionId])
    /\ \A id \in DOMAIN multiSigStore :
           Len(multiSigStore[id].signatures) =
               Cardinality({i \in DOMAIN requests :
                               Accepted(i) /\ requests[i].sessionId = id})
    /\ \A session \in Sessions :
           Len(session.signatures) >= session.threshold
               => session.status = "completed"

(* Two requests for the same role of one session were in flight together;  *)
(* the handler of the later one ran first and was accepted, and the earlier *)
(* one was then refused as a duplicate.                                     *)
C26_Witness ==
    /\ Len(requests) = 2
    /\ requests[1].sessionId = requests[2].sessionId
    /\ requests[1].role = requests[2].role
    /\ Accepted(2)
    /\ requests[1].code = 500
    /\ requests[1].error = ErrAlreadySigned

----------------------------------------------------------------------------
(* Retention of stored verification payloads *)

Retained(id) ==
    /\ id \in DOMAIN verificationStore
    /\ now <= verificationStore[id].createdAt + VERIFICATION_TTL_DAYS

(* C27: a payload stored under a token is returned by every lookup made    *)
(* up to VERIFICATION_TTL_DAYS after it was stored, whatever the session    *)
(* lifetime; a later lookup returns nothing and removes the entry; a lookup *)
(* of an unknown token returns nothing; and an entry leaves the store only  *)
(* through such a late lookup.                                              *)
C27_RetainedThirtyDays ==
    /\ [](\A id \in Ids :
              LET got == getStoredVerificationData(verificationStore, id, now)
              IN IF Retained(id)
                 THEN /\ got.data = Some(verificationStore[id].data)
                      /\ got.store = verificationStore
                 ELSE /\ got.data = Undefined
                      /\ id \notin DOMAIN got.store
                      /\ \A other \in DOMAIN verificationStore \ {id} :
                             /\ other \in DOMAIN got.store
                             /\ got.store[other] = verificationStore[other])
    /\ [][\A id \in DOMAIN verificationStore :
              IF id \in DOMAIN verificationStore'
              THEN verificationStore'[id] = verificationStore[id]
              ELSE /\ ~Retained(id)
                   /\ resp'.op = "getStoredVerificationData"
                   /\ resp'.code = 404]_vars

(* A payload was looked up and returned after the session lifetime had     *)
(* passed since it was stored, and on the last day of its own lifetime.     *)
C27_Witness ==
    /\ resp.op = "getStoredVerificationData" /\ resp.code = 200
    /\ \E id \in DOMAIN verificationStore :
           /\ resp.body = Some(verificationStore[id].data)
           /\ now = verificationStore[id].createdAt + VERIFICATION_TTL_DAYS
           /\ now > verificationStore[id].createdAt + SESSION_TTL_DAYS

----------------------------------------------------------------------------
(* Session sizes *)

----------------------------------------------------------------------------
(* What changes a session *)

IdentityOf(session) ==
    <<session.sessionId, session.documentId, session.documentHash,
      session.threshold, session.createdAt, session.expiresAt>>

AppendsOne(before, after) ==
    /\ Len(after.signatures) = Len(before.signatures) + 1
    /\ SubSeq(after.signatures, 1, Len(before.signatures)) =
           before.signatures
    /\ IdentityOf(after) = IdentityOf(before)

ReadOnlyOps == {"getSession", "verifyDocument", "createAggregatedSignature"}

(* C29: a stored session changes only in a step that answers an           *)
(* add-signature request with success, and that step adds one signature     *)
(* after those already stored, which stay as they were, and keeps           *)
(* sessionId, documentId, documentHash, threshold, createdAt and expiresAt; *)
(* progress, verification and aggregation leave the session store as it     *)
(* was; and a session leaves the store only by cancellation.                *)
C29_OnlyAddSignatureMutates ==
    [][/\ \A id \in DOMAIN multiSigStore :
              IF id \in DOMAIN multiSigStore'
              THEN \/ multiSigStore'[id] = multiSigStore[id]
                   \/ /\ resp'.op = "addSignature" /\ resp'.code = 200
                      /\ AppendsOne(multiSigStore[id], multiSigStore'[id])
              ELSE resp'.op = "cancelSession"
       /\ resp'.op \in ReadOnlyOps => multiSigStore' = multiSigStore]_vars

(* A session holding two signatures, the second added a session lifetime   *)
(* after the first, has just been verified.                                 *)
C29_Witness ==
    /\ resp.op = "verifyDocument" /\ resp.code = 200
    /\ \E session \in Sessions :
           /\ Len(session.signatures) = 2
           /\ session.signatures[1].signedAt < session.signatures[2].signedAt

----------------------------------------------------------------------------
(* Progress *)

RolesIn(list) == {list[i] : i \in 1..Len(list)}

(* C30: for every stored session, at every time, getSigningProgress        *)
(* reports signed as the number of signatures, percentage as the integer    *)
(* nearest to 100 * signed / threshold, signed and pending role lists that  *)
(* have no role in common and together hold exactly the required roles,     *)
(* and isExpired as whether the clock is past expiresAt.                    *)
C30_ProgressView ==
    \A session \in Sessions :
        LET progress == getSigningProgress(session, now)
            exact == 100 * progress.signed
            reported == progress.percentage * session.threshold
        IN /\ progress.signed = Len(session.signatures)
           /\ 2 * (exact - reported) <= session.threshold
           /\ 2 * (reported - exact) < session.threshold
           /\ RolesIn(progress.signedRoles)
                  \cap RolesIn(progress.pendingRoles) = {}
           /\ RolesIn(progress.signedRoles)
                  \cup RolesIn(progress.pendingRoles) = RequiredRoles(session)
           /\ progress.isExpired = (now > session.expiresAt)

(* The progress of an expired session with two of three signatures has     *)
(* just been reported: 67 per cent, one role pending.                       *)
C30_Witness ==
    /\ resp.op = "getSession" /\ resp.code = 200
    /\ resp.body[1].signed = 2
    /\ resp.body[1].percentage = 67
    /\ Len(resp.body[1].pendingRoles) = 1
    /\ resp.body[1].isExpired

----------------------------------------------------------------------------
(* The aggregate *)

(* C31: the aggregate made from a completed session has one entry per      *)
(* stored signature, in the stored order, and each entry carries the role,  *)
(* name, public key, signature and signedAt of the signature at the same    *)
(* position; the aggregate operation answers with exactly that aggregate.   *)
C31_AggregateKeepsSignatures ==
    /\ \A session \in Sessions :
           session.status = "completed"
               => LET created == createAggregatedSignature(session)
                      entries == created.aggregate[1].signatures
                  IN /\ created.ok
                     /\ Len(entries) = Len(session.signatures)
                     /\ \A i \in 1..Len(entries) :
                            LET stored == session.signatures[i]
                            IN /\ entries[i].signer.role = stored.signer.role
                               /\ entries[i].signer.name = stored.signer.name
                               /\ entries[i].signer.publicKey =
                                      stored.signer.publicKey
                               /\ entries[i].signature = stored.signature
                               /\ entries[i].signedAt = stored.signedAt
    /\ (resp.op = "createAggregatedSignature" /\ resp.code = 200)
           => \E session \in Sessions :
                  /\ session.status = "completed"
                  /\ resp.body =
                         createAggregatedSignature(session).aggregate

(* The aggregate of a session completed by two signers, the second a       *)
(* session lifetime after the first, has just been produced.                *)
C31_Witness ==
    /\ resp.op = "createAggregatedSignature" /\ resp.code = 200
    /\ Len(resp.body[1].signatures) = 2
    /\ resp.body[1].signatures[1].signedAt
           < resp.body[1].signatures[2].signedAt
    /\ resp.body[1].signatures[1].signer.role
           # resp.body[1].signatures[2].signer.role

----------------------------------------------------------------------------
(* Signed documents *)

(* C32 (as claimed): a document whose status is 'signed' is still stored   *)
(* after every step, with status 'signed' and the same title, content and   *)
(* hash.  Prepare-signing does not look at the status and sets it to        *)
(* 'pending_signatures'; cancelling a session still pending for the         *)
(* document sets it to 'draft'.                                             *)
C32_AsClaimed ==
    [][\A id \in DOMAIN documentStore :
           documentStore[id].status = "signed"
               => /\ id \in DOMAIN documentStore'
                  /\ documentStore'[id].status = "signed"
                  /\ documentStore'[id].title = documentStore[id].title
                  /\ documentStore'[id].content = documentStore[id].content
                  /\ documentStore'[id].hash = documentStore[id].hash]_vars

(* C33 (as claimed): the session a signed document refers to is stored    *)
(* and completed.  A document with a pending session is set to 'signed' by  *)
(* the single-sign route, which leaves multiSigSessionId as it was.         *)
C33_AsClaimed ==
    \A id \in DOMAIN documentStore :
        LET document == documentStore[id]
        IN (document.status = "signed"
               /\ document.multiSigSessionId # NoSession)
              => /\ document.multiSigSessionId \in DOMAIN multiSigStore
                 /\ multiSigStore[document.multiSigSessionId].status
                        = "completed"

(* C34 (as claimed): with no update since the signing, verification of a   *)
(* signed document by id reports valid with documentHashMatch.  For a       *)
(* document without content the hash is taken over the whole document       *)
(* object, which the signing route itself then changes.                     *)
C34_AsClaimed ==
    (resp.op = "verifyDocument" /\ resp.code = 200)
        => /\ resp.body[1].documentHashMatch
           /\ resp.body[1].valid

----------------------------------------------------------------------------
(* Verification through a QR *)

(* The document a QR data string names. *)
DocumentOfQR(qrData) ==
    LET parsedData == parseQRData(qrData)
    IN IF parsedData.type = "url_verification"
       THEN parsedData.documentId[1]
       ELSE parsedData.payload[1].documentId

(* C35 (as claimed): for the QR just generated for a signed document,      *)
(* verification through the QR gives a verdict, and it is the verdict of    *)
(* the verification of the document by id.  The QR route rebuilds the       *)
(* signature object without metadata and the session without threshold and  *)
(* session id.                                                              *)
C35_AsClaimed ==
    (resp.op = "documentQR" /\ resp.code = 200)
        => LET qrData == resp.body[1].qrData
               direct == verifyDocumentById(DocumentOfQR(qrData))
               viaQR == verifyQR(Some(qrData)).resp
           IN direct.code = 200
                  => /\ viaQR.code = 200
                     /\ viaQR.body[1].valid = direct.body[1].valid

----------------------------------------------------------------------------
(* The structural check *)

(* C36 (as claimed): the QR data the encoder has just produced passes      *)
(* validateQRData, with the type that was produced.  The signature object   *)
(* of signDocument has no algorithm member of its own, so the payload of a  *)
(* single signature carries none.                                           *)
C36_AsClaimed ==
    resp.op = "generateDocumentQR"
        => LET validation == validateQRData(resp.body[1].qrData)
           IN /\ validation.valid
              /\ validation.type =
                     Some(IF resp.body[1].compressed
                          THEN "verification_url"
                          ELSE "document_verification")

----------------------------------------------------------------------------
(* Session bookkeeping *)

PendingSigners(session) ==
    {i \in 1..Len(session.requiredSigners) :
        session.requiredSigners[i].status = "pending"}

(* C37: in every stored session a required signer is 'signed', with        *)
(* signedAt set, exactly when a signature with its role is stored and is    *)
(* 'pending' without signedAt otherwise; metadata.signedCount is the number *)
(* of signatures, metadata.pendingCount the number of pending required      *)
(* signers, and the two add up to metadata.totalSigners.                    *)
C37_BookkeepingConsistent ==
    \A session \in Sessions :
        /\ \A i \in 1..Len(session.requiredSigners) :
               LET signer == session.requiredSigners[i]
               IN IF signer.role \in SignedRoles(session)
                  THEN signer.status = "signed" /\ IsDefined(signer.signedAt)
                  ELSE signer.status = "pending" /\ ~IsDefined(signer.signedAt)
        /\ session.metadata.signedCount = Len(session.signatures)
        /\ session.metadata.pendingCount = Cardinality(PendingSigners(session))
        /\ session.metadata.signedCount + session.metadata.pendingCount
               = session.metadata.totalSigners

C37_Witness ==
    /\ resp.op = "addSignature" /\ resp.code = 200
    /\ \E session \in Sessions :
           /\ session.metadata.signedCount = 2
           /\ session.metadata.pendingCount = 1
           /\ session.requiredSigners[1].status = "pending"

----------------------------------------------------------------------------
(* Revocation *)

ReturnsPrivateKeyOf(response, keyId) ==
    /\ IsDefined(response.body)
    /\ "privateKey" \in DOMAIN response.body[1]
    /\ response.body[1].privateKey = keyStore[keyId].privateKey

(* C38: a stored key stays stored and its status changes only from         *)
(* 'active' to 'revoked'; a revoked key keeps its status, revokedAt and      *)
(* reason in every step, a revoke request for it is answered 400 and leaves  *)
(* the key store as it was, and no response hands out its private key.       *)
C38_RevocationIsFinal ==
    [][\A keyId \in DOMAIN keyStore :
          /\ keyId \in DOMAIN keyStore'
          /\ keyStore'[keyId].status # keyStore[keyId].status
                 => /\ keyStore[keyId].status = "active"
                    /\ keyStore'[keyId].status = "revoked"
                    /\ IsDefined(keyStore'[keyId].revokedAt)
          /\ keyStore[keyId].status = "revoked"
                 => /\ keyStore'[keyId] = keyStore[keyId]
                    /\ ~ReturnsPrivateKeyOf(resp', keyId)
                    /\ \A reason \in RevocationReasons :
                           RevokeKey(keyId, reason)
                               => /\ resp'.code = 400
                                  /\ keyStore' = keyStore]_vars

(* A key revoked earlier, with a reason, has just been refused a second     *)
(* revocation at a later time.                                              *)
C38_Witness ==
    /\ resp.op = "revokeKey" /\ resp.code = 400
    /\ \E keyId \in DOMAIN keyStore :
           /\ keyStore[keyId].status = "revoked"
           /\ keyStore[keyId].revocationReason = Some("compromised")
           /\ keyStore[keyId].revokedAt # Some(now)

====
